---- MODULE Spec2Model ----
(***************************************************************************)
(* Model of the ESG claim verification backend (python_backend):           *)
(*   - ESGVerifier.verify_claim and its Gemini response parsing,           *)
(*   - ClaimClassifier / BatchProcessor batch classification,              *)
(*   - NLPProcessor.process_pdf_document, the six-step pipeline,           *)
(*   - process_document.main, the command-line entry point.                *)
(* Python floats that matter (confidences, thresholds) are integers in     *)
(* tenths; progress fractions are pairs <<numerator, denominator>>.        *)
(* A Python function that may raise is an operator returning a record      *)
(* [exc |-> exception type or "none", val |-> returned value].             *)
(***************************************************************************)
EXTENDS Integers, Sequences, FiniteSets, TLC

\* ------------------------------------------------------------------ bounds
\* longest candidate company name tried against the reference dataset
MaxName == 4
\* number of freely chosen sentences at the head of a document
MaxHead == 2
\* longest sentence list given to the stand-alone batch classification
MaxBatchInput == 3
\* largest batch size tried by the stand-alone batch classification
MaxBatchSize == 2
\* longest sentence list given to the concurrent remote classification
MaxRemoteInput == 3
\* smallest worker pool tried by the concurrent remote classification
MaxPool == 2
\* number of documents the HTTP server processes
MaxRequests == 2
\* number of parts (separator and token) of a file name
MaxParts == 4
\* number of sentences of a text given to the sentence splitter
MaxSentences == 2
\* largest max_retries given to the remote request helper
MaxRetries == 4

\* ------------------------------------------------------- Python helpers
\* Python None, and an absent dictionary key
NONE == "NONE"
MISSING == "MISSING"

Ok(v) == [exc |-> "none", val |-> v]
Raise(t) == [exc |-> t, val |-> NONE]

Min(a, b) == IF a <= b THEN a ELSE b
Max(a, b) == IF a >= b THEN a ELSE b

Range(s) == {s[i] : i \in DOMAIN s}

\* all sequences over S of length at most n
SeqUpTo(S, n) == UNION {[1..k -> S] : k \in 0..n}

\* --------------------------------------------------- strings as char tuples
\* company names are tuples of one-character strings
Chars == {"A", "a", "b"}

Lower(c) == IF c = "A" THEN "a" ELSE c

\* str.lower()
LowerStr(s) == [i \in DOMAIN s |-> Lower(s[i])]

\* Python `a in b` for strings: a is a contiguous substring of b
StrIn(a, b) ==
    \E off \in 0..(Len(b) - Len(a)) :
        \A i \in 1..Len(a) : b[off + i] = a[i]

\* ------------------------------------------------------ reference dataset
\* Python None passed where a string is expected
NoneStr == <<"None">>

Names == SeqUpTo(Chars, MaxName)

\* rows of the loaded DataFrame, in file order (value in tenths)
Dataset ==
    << [company |-> <<"A", "b", "b", "a">>, year |-> 2023, metric |-> "renewable_energy_percent", value |-> 500],
       [company |-> <<"a", "b">>,           year |-> 2023, metric |-> "emissions",                value |-> 120],
       [company |-> <<"a", "b", "b", "a">>, year |-> 2024, metric |-> "emissions",                value |-> 300],
       [company |-> <<"A", "b", "b", "a">>, year |-> 2024, metric |-> "renewable_energy_percent", value |-> 520],
       [company |-> <<"b", "A">>,           year |-> 2023, metric |-> "emissions",                value |-> 70],
       [company |-> <<"A", "b">>,           year |-> 2024, metric |-> "emissions",                value |-> 130] >>

\* data[data['company'] == company]: the indices of the rows of that company
RECURSIVE RowsFrom(_, _, _)
RowsFrom(data, company, i) ==
    IF i > Len(data) THEN <<>>
    ELSE (IF data[i].company = company THEN <<i>> ELSE <<>>) \o RowsFrom(data, company, i + 1)

\* data[data['company'].str.lower() == lname]
RECURSIVE RowsLowerFrom(_, _, _)
RowsLowerFrom(data, lname, i) ==
    IF i > Len(data) THEN <<>>
    ELSE (IF LowerStr(data[i].company) = lname THEN <<i>> ELSE <<>>) \o RowsLowerFrom(data, lname, i + 1)

\* the first row, from i on, whose company contains or is contained in the candidate
RECURSIVE FirstPartial(_, _, _)
FirstPartial(data, lname, i) ==
    IF i > Len(data) THEN 0
    ELSE IF (StrIn(lname, LowerStr(data[i].company)) \/ StrIn(LowerStr(data[i].company), lname))
            /\ Len(lname) > 3
         THEN i
         ELSE FirstPartial(data, lname, i + 1)

\* the lookup trying the containment match before the exact match
_get_company_data_for_verification_partial_first(data, company_name) ==
    IF company_name = NoneStr THEN Raise("AttributeError")
    ELSE LET lname == LowerStr(company_name)
             exact_match == RowsLowerFrom(data, lname, 1)
             hit == FirstPartial(data, lname, 1)
         IN  IF hit # 0 THEN Ok(RowsFrom(data, data[hit].company, 1))
             ELSE Ok(exact_match)

\* ESGVerifier._get_company_data_for_verification: the matching rows (their
\* indices, in dataset order); company_name.lower() raises on None
_get_company_data_for_verification(data, company_name) ==
    IF company_name = NoneStr THEN Raise("AttributeError")
    ELSE LET lname == LowerStr(company_name)
             exact_match == RowsLowerFrom(data, lname, 1)
             hit == FirstPartial(data, lname, 1)
         IN  IF exact_match # <<>> THEN Ok(exact_match)
             ELSE IF hit # 0 THEN Ok(RowsFrom(data, data[hit].company, 1))
             ELSE Ok(<<>>)

\* ------------------------------------------------- reasoning service replies
\* A JSON value as far as the parser looks at it: t is its type, v its number
\* (tenths) when it is a number or a numeric string.
JMissing == [t |-> "missing", v |-> 0]
JNull == [t |-> "null", v |-> 0]
JNum(n) == [t |-> "num", v |-> n]
JNumStr(n) == [t |-> "numstr", v |-> n]
JBadStr == [t |-> "badstr", v |-> 0]
JBool(b) == [t |-> IF b THEN "true" ELSE "false", v |-> 0]
JList == [t |-> "list", v |-> 0]

Keywords == {"verified", "match", "questionable", "partial"}

StatusTexts == {MISSING, NONE, "verified", "questionable", "unverified", "supported"}

\* What generate_content(prompt).text can be:
\*   kind "throw"  the call (or reading .text) raises
\*   kind "text"   free text that is not JSON; words are the keywords in it
\*   kind "json"   a JSON document, top is its top-level type; for an object
\*                 the fields are what it holds
\*   fence "json" wraps the reply in ```json ... ```, fence "bare" in ``` ... ```
GeminiReply(kind, fence, top, words, status, confidence, csv_match, tolerance_check) ==
    [kind |-> kind, fence |-> fence, top |-> top, words |-> words, status |-> status,
     confidence |-> confidence, csv_match |-> csv_match, tolerance_check |-> tolerance_check]

ThrowReply == GeminiReply("throw", "none", "none", {}, MISSING, JMissing, JMissing, JMissing)

TextReplies ==
    {GeminiReply("text", f, "none", w, MISSING, JMissing, JMissing, JMissing) :
        f \in {"none", "bare"}, w \in SUBSET Keywords}

NonObjectReplies ==
    {GeminiReply("json", f, t, {}, MISSING, JMissing, JMissing, JMissing) :
        f \in {"none", "json"}, t \in {"list", "null", "number", "string"}}

ObjectReplies ==
    {GeminiReply("json", f, "object", {}, st, c, m, tc) :
        f \in {"none", "json", "bare"},
        st \in StatusTexts,
        c \in {JMissing, JNum(9), JNum(15), JNumStr(9), JBadStr, JNull},
        m \in {JMissing, JBool(TRUE)},
        tc \in {JMissing, JBadStr}}

GeminiReplies == {ThrowReply} \cup TextReplies \cup NonObjectReplies \cup ObjectReplies

\* the keywords that occur in the lower-cased reply text ('verified' is a
\* substring of 'unverified', 'match' of the key 'csv_match')
ReplyWords(r) ==
    IF r.kind = "text" THEN r.words
    ELSE IF r.top # "object" THEN {}
    ELSE (IF r.status \in {"verified", "unverified"} THEN {"verified"} ELSE {})
         \cup (IF r.status = "questionable" THEN {"questionable"} ELSE {})
         \cup (IF r.csv_match.t # "missing" THEN {"match"} ELSE {})

\* float(x) of a parsed JSON value
PyFloat(j) ==
    CASE j.t \in {"num", "numstr"} -> Ok(j.v)
      [] j.t = "true" -> Ok(10)
      [] j.t = "false" -> Ok(0)
      [] j.t = "badstr" -> Raise("ValueError")
      [] OTHER -> Raise("TypeError")

\* bool(x) of a parsed JSON value
PyBool(j) ==
    CASE j.t \in {"null", "false", "missing"} -> FALSE
      [] j.t \in {"num", "numstr"} -> j.t = "numstr" \/ j.v # 0
      [] OTHER -> TRUE

\* dict.get(key, default) on a field of the parsed object
DictGet(j, default) == IF j.t = "missing" THEN default ELSE j

\* VerificationResult(...)
VerificationResult(status, confidence, reasoning, csv_match, tolerance_check, matched_data) ==
    [status |-> status, confidence |-> confidence, reasoning |-> reasoning,
     csv_match |-> csv_match, tolerance_check |-> tolerance_check, matched_data |-> matched_data]

\* json.loads(response_text.strip()) after the fence stripping: the opening
\* ```json and the closing ``` are removed, a bare opening ``` is not
JsonLoads(r) ==
    IF r.kind = "text" \/ r.fence = "bare" THEN Raise("JSONDecodeError")
    ELSE Ok(r)

\* the except (json.JSONDecodeError, ValueError) branch: keyword scan
KeywordFallback(r, company_data) ==
    LET w == ReplyWords(r)
        status == IF "verified" \in w /\ "match" \in w THEN "verified"
                  ELSE IF "questionable" \in w \/ "partial" \in w THEN "questionable"
                  ELSE "unverified"
        confidence == IF status = "verified" THEN 8
                      ELSE IF status = "questionable" THEN 5 ELSE 2
    IN  VerificationResult(status, confidence, "Gemini analysis", company_data # <<>>, FALSE, NONE)

\* ESGVerifier._parse_gemini_verification_response
_parse_gemini_verification_response(r, company_data) ==
    LET loaded == JsonLoads(r)
    IN  IF loaded.exc = "JSONDecodeError" THEN Ok(KeywordFallback(r, company_data))
        ELSE IF r.top # "object" THEN Raise("AttributeError")
        ELSE LET status == IF r.status = MISSING THEN "unverified" ELSE r.status
                 confidence == PyFloat(DictGet(r.confidence, JNum(0)))
             IN  IF confidence.exc = "ValueError" THEN Ok(KeywordFallback(r, company_data))
                 ELSE IF confidence.exc # "none" THEN Raise(confidence.exc)
                 ELSE Ok(VerificationResult(status, confidence.val, "reasoning",
                                            PyBool(r.csv_match), PyBool(r.tolerance_check),
                                            "gemini"))

\* _basic_verify_claim answering 'questionable' without looking at the rows
_basic_verify_claim_rows_ignored(data, company_name) ==
    LET company_data == _get_company_data_for_verification(data, company_name)
    IN  IF company_data.exc # "none" THEN Raise(company_data.exc)
        ELSE Ok(VerificationResult("questionable", 5, "detailed verification unavailable",
                                   TRUE, FALSE, "row"))

\* _basic_verify_claim accepting the claim when reference rows exist
_basic_verify_claim_accepting(data, company_name) ==
    LET company_data == _get_company_data_for_verification(data, company_name)
    IN  IF company_data.exc # "none" THEN Raise(company_data.exc)
        ELSE IF company_data.val = <<>>
             THEN Ok(VerificationResult("unverified", 0, "No data found for company", FALSE, FALSE, NONE))
             ELSE Ok(VerificationResult("verified", 10, "detailed verification unavailable",
                                        TRUE, TRUE, "row"))

\* ESGVerifier._basic_verify_claim
_basic_verify_claim(data, company_name) ==
    LET company_data == _get_company_data_for_verification(data, company_name)
    IN  IF company_data.exc # "none" THEN Raise(company_data.exc)
        ELSE IF company_data.val = <<>>
             THEN Ok(VerificationResult("unverified", 0, "No data found for company", FALSE, FALSE, NONE))
             ELSE Ok(VerificationResult("questionable", 5, "detailed verification unavailable",
                                        TRUE, FALSE, "row"))

\* what a call of verify_claim comes to: its outcome and the number of
\* generate_content requests it sent to the reasoning service
Call(outcome, requests) == [exc |-> outcome.exc, val |-> outcome.val, requests |-> requests]

\* verify_claim without its try/except: a failure of the service call or of
\* the parsing reaches the caller
verify_claim_unguarded(gemini_model, data, company_name, reply) ==
    IF ~gemini_model THEN Call(_basic_verify_claim(data, company_name), 0)
    ELSE LET company_data == _get_company_data_for_verification(data, company_name)
         IN  IF company_data.exc # "none" THEN Call(Raise(company_data.exc), 0)
             ELSE IF company_data.val = <<>>
                  THEN Call(Ok(VerificationResult("unverified", 0, "No data found for company in dataset",
                                                  FALSE, FALSE, NONE)), 0)
             ELSE IF reply.kind = "throw" THEN Call(Raise("ServiceError"), 1)
             ELSE Call(_parse_gemini_verification_response(reply, company_data.val), 1)

\* ESGVerifier.verify_claim: gemini_model is FALSE when the service is not
\* configured, reply is what the service answers when it is asked
verify_claim(gemini_model, data, company_name, reply) ==
    IF ~gemini_model THEN Call(_basic_verify_claim(data, company_name), 0)
    ELSE LET company_data == _get_company_data_for_verification(data, company_name)
         IN  IF company_data.exc # "none" THEN Call(_basic_verify_claim(data, company_name), 0)
             ELSE IF company_data.val = <<>>
                  THEN Call(Ok(VerificationResult("unverified", 0, "No data found for company in dataset",
                                                  FALSE, FALSE, NONE)), 0)
             ELSE IF reply.kind = "throw" THEN Call(_basic_verify_claim(data, company_name), 1)
             ELSE LET parsed == _parse_gemini_verification_response(reply, company_data.val)
                  IN  IF parsed.exc # "none" THEN Call(_basic_verify_claim(data, company_name), 1)
                      ELSE Call(parsed, 1)

\* ---------------------------------------------------------- fact extractor
\* ExtractedClaimData(...); numbers are JSON values (JNull when unset)
ExtractedClaimData(metric, value, unit, year, percentage, raw_text) ==
    [metric |-> metric, value |-> value, unit |-> unit, year |-> year,
     percentage |-> percentage, raw_text |-> raw_text]

\* re.findall(r'\b(202[0-5])\b', token): the year a token is, 0 if none
TokenYear(t) ==
    CASE t = "2020" -> 2020 [] t = "2021" -> 2021 [] t = "2022" -> 2022
      [] t = "2023" -> 2023 [] t = "2024" -> 2024 [] t = "2025" -> 2025
      [] OTHER -> 0

\* re.findall(r'(\d+(?:\.\d+)?)\s*%', token): the percentage (tenths), -1 if none
TokenPercentage(t) ==
    CASE t = "25%" -> 250 [] t = "41.8%" -> 418 [] OTHER -> 0 - 1

\* 'emission' in token or 'co2' in token, 'renewable' in token
TokenIsEmission(t) == t \in {"emissions", "co2"}
TokenIsRenewable(t) == t = "renewable"

\* matches[0] of a findall over the text: the first token with a value
RECURSIVE FirstMatch(_, _, _)
FirstMatch(text, Op(_), none) ==
    IF text = <<>> THEN none
    ELSE IF Op(Head(text)) # none THEN Op(Head(text))
    ELSE FirstMatch(Tail(text), Op, none)

\* ESGVerifier._basic_extract_claim_data (none of the sentences carries a
\* number with a unit, so value and unit stay unset)
_basic_extract_claim_data(claim_text) ==
    LET year == FirstMatch(claim_text, TokenYear, 0)
        percentage == FirstMatch(claim_text, TokenPercentage, 0 - 1)
        metric == IF \E i \in DOMAIN claim_text : TokenIsEmission(claim_text[i]) THEN "emissions"
                  ELSE IF \E i \in DOMAIN claim_text : TokenIsRenewable(claim_text[i])
                       THEN "renewable_energy_percent"
                  ELSE NONE
    IN  ExtractedClaimData(metric, JNull, NONE,
                           IF year = 0 THEN JNull ELSE JNum(year),
                           IF percentage = 0 - 1 THEN JNull ELSE JNum(percentage),
                           claim_text)

\* what the reasoning service answers to the extraction prompt
ExtractReply(kind, top, metric, year, percentage) ==
    [kind |-> kind, top |-> top, metric |-> metric, year |-> year, percentage |-> percentage]

ExtractThrow == ExtractReply("throw", "none", NONE, JNull, JNull)

ExtractReplies ==
    {ExtractThrow}
    \cup {ExtractReply("text", "none", NONE, JNull, JNull)}
    \cup {ExtractReply("json", "list", NONE, JNull, JNull)}
    \cup {ExtractReply("json", "object", m, y, pc) :
            m \in {NONE, "emissions"},
            y \in {JMissing, JNull, JNum(2023), JNum(1999), JNumStr(2023)},
            pc \in {JMissing, JNum(250)}}

\* dict.get(key) without default: None when the key is absent
DictGetNone(j) == IF j.t = "missing" THEN JNull ELSE j

\* extract_claim_data reading the fields of any JSON value the service returns
extract_claim_data_any_json(gemini_model, claim_text, reply) ==
    IF ~gemini_model THEN _basic_extract_claim_data(claim_text)
    ELSE IF reply.kind # "json" THEN _basic_extract_claim_data(claim_text)
    ELSE ExtractedClaimData(reply.metric, JNull, NONE, DictGetNone(reply.year),
                            DictGetNone(reply.percentage), claim_text)

\* ESGVerifier.extract_claim_data
extract_claim_data(gemini_model, claim_text, reply) ==
    IF ~gemini_model THEN _basic_extract_claim_data(claim_text)
    ELSE IF reply.kind # "json" \/ reply.top # "object" THEN _basic_extract_claim_data(claim_text)
    ELSE ExtractedClaimData(reply.metric, JNull, NONE, DictGetNone(reply.year),
                            DictGetNone(reply.percentage), claim_text)

\* ------------------------------------------------------------ classifier
\* config.py
CONFIDENCE_THRESHOLD == 7
BATCH_SIZE == 16

\* A sentence is a tuple of tokens; the token " " stands for white space
\* beyond the single blank between two words.
S_hi == <<"emissions", "cut", "25%", "2023">>
S_thr == <<"renewable", "41.8%", "2023">>
S_lo == <<"aims", "net", "zero">>
S_non == <<"see", "page", "12">>
S_pad == <<" ", "emissions", "cut", "25%", "2023">>
S_empty == <<>>
S_ws == <<" ">>

\* sentences the extractor can deliver (stripped, never blank)
DocSentences == {S_hi, S_thr, S_lo, S_non}
\* sentences a direct caller of the classifier can pass
AnySentences == DocSentences \cup {S_pad, S_empty, S_ws}

\* not sentence or not sentence.strip()
IsBlank(sentence) == \A i \in DOMAIN sentence : sentence[i] = " "

KeepToken(t) == t # " "

\* ClaimClassifier._preprocess_sentence (no sentence here reaches the
\* 4 * MAX_SENTENCE_LENGTH character cut)
_preprocess_sentence(sentence) ==
    IF IsBlank(sentence) THEN <<>> ELSE SelectSeq(sentence, KeepToken)

\* softmax(model(inputs).logits): the probability of class 1 (Claim), tenths;
\* the model is in eval mode, so it is a function of the cleaned sentence
ModelProbClaim(cleaned) ==
    CASE cleaned = S_hi -> 9
      [] cleaned = S_thr -> 7
      [] cleaned = S_lo -> 6
      [] cleaned = S_non -> 2
      [] OTHER -> 5

\* a classification result dictionary; error is MISSING when the key is absent
ClassificationResult(text, prediction, confidence, is_claim, raw_scores, error) ==
    [text |-> text, prediction |-> prediction, confidence |-> confidence,
     is_claim |-> is_claim, raw_scores |-> raw_scores, error |-> error]

DefaultResult(text, error) ==
    ClassificationResult(text, "Non-Claim", 0, FALSE, <<10, 0>>, error)

\* the result the model gives for one valid sentence: argmax and its probability
ModelResult(text) ==
    LET p1 == ModelProbClaim(_preprocess_sentence(text))
        predicted_class == IF p1 > 10 - p1 THEN 1 ELSE 0
        confidence == IF predicted_class = 1 THEN p1 ELSE 10 - p1
    IN  ClassificationResult(text, IF predicted_class = 1 THEN "Claim" ELSE "Non-Claim",
                             confidence, predicted_class = 1, <<10 - p1, p1>>, MISSING)

\* valid_indices without the test 'if sentence'
ValidIndicesUnfiltered(batch_sentences) ==
    DOMAIN batch_sentences

\* valid_indices of _process_batch
ValidIndices(batch_sentences) ==
    {idx \in DOMAIN batch_sentences : _preprocess_sentence(batch_sentences[idx]) # <<>>}

IsValidSentence(sentence) == ~IsBlank(sentence)

\* _process_batch returning results for the valid sentences only
_process_batch_valid_only(batch_sentences, throws) ==
    IF ValidIndices(batch_sentences) # {} /\ throws THEN Raise("RuntimeError")
    ELSE LET valid == SelectSeq(batch_sentences, IsValidSentence)
         IN  Ok([idx \in DOMAIN valid |-> ModelResult(valid[idx])])

\* ClaimClassifier._process_batch; throws tells whether the tokenizer/model
\* call of this chunk raises (there is no call when no sentence is valid)
_process_batch(batch_sentences, throws) ==
    IF ValidIndices(batch_sentences) # {} /\ throws THEN Raise("RuntimeError")
    ELSE Ok([idx \in DOMAIN batch_sentences |->
                IF idx \in ValidIndices(batch_sentences)
                THEN ModelResult(batch_sentences[idx])
                ELSE DefaultResult(batch_sentences[idx], MISSING)])

\* valid_sentences of _process_batch: what the tokenizer and the model get
valid_sentences(batch_sentences) ==
    LET indices == SelectSeq([idx \in DOMAIN batch_sentences |-> idx],
                             LAMBDA idx : idx \in ValidIndices(batch_sentences))
    IN  [k \in DOMAIN indices |-> _preprocess_sentence(batch_sentences[indices[k]])]

\* the model calls of a chunk: one with its valid sentences, none without any
InferenceCalls(batch_sentences) ==
    IF valid_sentences(batch_sentences) = <<>> THEN <<>> ELSE <<valid_sentences(batch_sentences)>>

\* ClaimClassifier.classify_sentence; throws tells whether the tokenizer/model
\* call raises; calls are the inputs given to the model
classify_sentence(sentence, throws) ==
    IF IsBlank(sentence)
    THEN [exc |-> "none", calls |-> <<>>,
          val |-> ClassificationResult(sentence, "Non-Claim", 0, FALSE, <<0, 0>>, MISSING)]
    ELSE IF throws
    THEN [exc |-> "ESGProcessingError", calls |-> <<<<_preprocess_sentence(sentence)>>>>,
          val |-> DefaultResult(sentence, MISSING)]
    ELSE [exc |-> "none", calls |-> <<<<_preprocess_sentence(sentence)>>>>,
          val |-> ModelResult(sentence)]

\* range(0, total, size)
ChunkStarts(total, size) == {i \in 0..(total - 1) : i % size = 0}

\* sentences[i:i + size]
Chunk(sentences, i, size) == SubSeq(sentences, i + 1, Min(i + size, Len(sentences)))

\* the chunks (by start index) whose inference call raises, given the set bad
\* of chunks for which the model fails
FailingChunks(sentences, size, bad) ==
    {i \in ChunkStarts(Len(sentences), size) \cap bad :
        ValidIndices(Chunk(sentences, i, size)) # {}}

SetMin(S) == CHOOSE x \in S : \A y \in S : x <= y

\* the loop of ClaimClassifier.batch_classify from chunk i on, no chunk failing
RECURSIVE ClassifyFrom(_, _, _)
ClassifyFrom(sentences, size, i) ==
    IF i >= Len(sentences) THEN <<>>
    ELSE _process_batch(Chunk(sentences, i, size), FALSE).val
         \o ClassifyFrom(sentences, size, i + size)

\* ClaimClassifier.batch_classify: val is the result list, done the number of
\* chunks completed (one progress callback each) before it returned or raised,
\* exc the exception of _process_batch that it wraps in ESGProcessingError
batch_classify(sentences, size, bad) ==
    LET failing == FailingChunks(sentences, size, bad)
    IN  IF sentences = <<>> THEN [exc |-> "none", val |-> <<>>, done |-> 0]
        ELSE IF failing # {}
             THEN [exc |-> "RuntimeError", val |-> <<>>, done |-> SetMin(failing) \div size]
             ELSE [exc |-> "none", val |-> ClassifyFrom(sentences, size, 0),
                   done |-> Cardinality(ChunkStarts(Len(sentences), size))]

\* the model calls of the chunks from start i up to start last
RECURSIVE InferenceCallsFrom(_, _, _, _)
InferenceCallsFrom(sentences, size, i, last) ==
    IF i >= Len(sentences) \/ i > last THEN <<>>
    ELSE InferenceCalls(Chunk(sentences, i, size))
         \o InferenceCallsFrom(sentences, size, i + size, last)

\* the model calls of ClaimClassifier.batch_classify: it stops at the first
\* chunk whose call raises
batch_classify_calls(sentences, size, bad) ==
    LET failing == FailingChunks(sentences, size, bad)
    IN  InferenceCallsFrom(sentences, size, 0,
                           IF failing = {} THEN Len(sentences) ELSE SetMin(failing))

\* BatchProcessor._process_single_batch
_process_single_batch(batch_sentences, throws) ==
    LET batch_results == _process_batch(batch_sentences, throws)
    IN  IF batch_results.exc = "none" THEN batch_results.val
        ELSE [idx \in DOMAIN batch_sentences |-> DefaultResult(batch_sentences[idx], batch_results.exc)]

RECURSIVE ProcessFrom(_, _, _, _)
ProcessFrom(sentences, size, bad, i) ==
    IF i >= Len(sentences) THEN <<>>
    ELSE _process_single_batch(Chunk(sentences, i, size), i \in bad)
         \o ProcessFrom(sentences, size, bad, i + size)

\* BatchProcessor.process_sentences with self.batch_size = batch_size or 16:
\* the 'results' list
process_sentences(sentences, batch_size, bad) ==
    LET size == IF batch_size = 0 THEN 16 ELSE batch_size
    IN  IF sentences = <<>> THEN <<>> ELSE ProcessFrom(sentences, size, bad, 0)

\* ClaimClassifier.filter_claims
IsRetained(result, threshold) == result.is_claim /\ result.confidence >= threshold

\* filter_claims keeping only the results above the threshold
filter_claims_above(classification_results, threshold) ==
    SelectSeq(classification_results,
              LAMBDA result : result.is_claim /\ result.confidence > threshold)

RECURSIVE filter_claims(_, _)
filter_claims(classification_results, threshold) ==
    IF classification_results = <<>> THEN <<>>
    ELSE (IF IsRetained(Head(classification_results), threshold)
          THEN <<Head(classification_results)>> ELSE <<>>)
         \o filter_claims(Tail(classification_results), threshold)

\* -------------------------------------------------------- status tracker
\* fractions <<numerator, denominator>> with a positive denominator
FracLeq(a, b) == a[1] * b[2] <= b[1] * a[2]
FracEq(a, b) == a[1] * b[2] = b[1] * a[2]
Zero == <<0, 1>>
One == <<1, 1>>

\* ProcessingStatus.total_steps
TotalSteps == 6

\* ProcessingStatus.__init__
NewProcessingStatus ==
    [current_step |-> "", progress |-> Zero, step_progress |-> Zero,
     errors |-> <<>>, warnings |-> <<>>]

\* ProcessingStatus.start_processing
start_processing(status) ==
    [status EXCEPT !.progress = Zero, !.current_step = "Initializing"]

\* update_step computing step_number / total_steps
update_step_from_one(status, step_name, step_number) ==
    [status EXCEPT !.current_step = step_name,
                   !.progress = <<step_number, TotalSteps>>,
                   !.step_progress = Zero]

\* ProcessingStatus.update_step
update_step(status, step_name, step_number) ==
    [status EXCEPT !.current_step = step_name,
                   !.progress = <<step_number - 1, TotalSteps>>,
                   !.step_progress = Zero]

\* ProcessingStatus.update_step_progress: min(max(progress, 0.0), 1.0)
update_step_progress(status, progress) ==
    [status EXCEPT !.step_progress =
        IF FracLeq(One, progress) THEN One
        ELSE IF FracLeq(progress, Zero) THEN Zero
        ELSE progress]

\* ProcessingStatus.add_error, add_warning
add_error(status, error) == [status EXCEPT !.errors = Append(@, error)]
add_warning(status, warning) == [status EXCEPT !.warnings = Append(@, warning)]

\* ProcessingStatus.complete_processing
complete_processing(status) ==
    [status EXCEPT !.progress = One, !.current_step = "Complete"]

\* the step names process_pdf_document gives to update_step
StepName(k) ==
    CASE k = 1 -> "Initializing components"
      [] k = 2 -> "Extracting text from PDF"
      [] k = 3 -> "Classifying claims"
      [] k = 4 -> "Processing detected claims"
      [] k = 5 -> "Verifying claims"
      [] k = 6 -> "Formatting results"

\* an exception object: its class and str(e) as the chain of message parts
Exc(type, msg) == [type |-> type, msg |-> msg]
NoExc == Exc("none", <<>>)

\* ------------------------------------------------------- results formatter
VerdictStatuses == {"verified", "questionable", "unverified"}

CountStatus(verified_claims, status) ==
    Cardinality({i \in DOMAIN verified_claims : verified_claims[i].verification_status = status})

\* n / d of Python as the pair <<n, d>>; a pair with d = 0 stands for the
\* ZeroDivisionError the division raises
PyDiv(n, d) == <<n, d>>

\* _calculate_summary_statistics without the branch for the empty list
_calculate_summary_statistics_no_empty_case(verified_claims) ==
    [total_claims |-> Len(verified_claims),
     verified |-> CountStatus(verified_claims, "verified"),
     questionable |-> CountStatus(verified_claims, "questionable"),
     unverified |-> CountStatus(verified_claims, "unverified"),
     verification_rate |-> PyDiv(CountStatus(verified_claims, "verified"), Len(verified_claims))]

\* ResultsFormatter._calculate_summary_statistics (the counts and the rate)
_calculate_summary_statistics(verified_claims) ==
    IF Len(verified_claims) = 0
    THEN [total_claims |-> 0, verified |-> 0, questionable |-> 0, unverified |-> 0,
          verification_rate |-> Zero]
    ELSE [total_claims |-> Len(verified_claims),
          verified |-> CountStatus(verified_claims, "verified"),
          questionable |-> CountStatus(verified_claims, "questionable"),
          unverified |-> CountStatus(verified_claims, "unverified"),
          verification_rate |-> PyDiv(CountStatus(verified_claims, "verified"), Len(verified_claims))]

\* ResultsFormatter._format_claims_details
_format_claims_details(verified_claims) ==
    [i \in DOMAIN verified_claims |->
        [id |-> verified_claims[i].id,
         text |-> verified_claims[i].text,
         confidence |-> verified_claims[i].confidence,
         extracted_data |-> verified_claims[i].extracted_data,
         status |-> verified_claims[i].verification_status,
         verification_confidence |-> verified_claims[i].verification_confidence,
         csv_match |-> verified_claims[i].match_details.csv_match,
         tolerance_check |-> verified_claims[i].match_details.tolerance_check,
         reasoning |-> verified_claims[i].match_details.reasoning]]

NoResults ==
    [claims |-> <<>>, summary |-> _calculate_summary_statistics(<<>>),
     total_sentences |-> 0, processing_status |-> NewProcessingStatus]

\* ResultsFormatter.format_processing_results: reasoning_categories[status]
\* of _generate_reasoning_breakdown raises KeyError for any other status
format_processing_results(sentences, verified_claims, processing_status) ==
    IF \E i \in DOMAIN verified_claims : verified_claims[i].verification_status \notin VerdictStatuses
    THEN Raise("KeyError")
    ELSE Ok([claims |-> _format_claims_details(verified_claims),
             summary |-> _calculate_summary_statistics(verified_claims),
             total_sentences |-> Len(sentences),
             processing_status |-> processing_status])

\* ====================================================== remote classifier
\* sentence.strip(): leading and trailing white space removed
RECURSIVE LStrip(_)
LStrip(sentence) ==
    IF sentence # <<>> /\ Head(sentence) = " " THEN LStrip(Tail(sentence)) ELSE sentence

RECURSIVE RStrip(_)
RStrip(sentence) ==
    IF sentence # <<>> /\ sentence[Len(sentence)] = " "
    THEN RStrip(SubSeq(sentence, 1, Len(sentence) - 1)) ELSE sentence

Strip(sentence) == RStrip(LStrip(sentence))

\* What a request to the inference endpoint comes to. "labels": a list of
\* items LABEL_0 / LABEL_1; "names": a list of items Non-Claim / Claim, highest
\* score first; "unexpected": status 200 with a body that is no non-empty
\* list; "failed": _make_api_request raises after its retries.
ResponseKinds == {"labels", "names", "unexpected", "failed"}

\* the items of a list response for the text sent (scores in tenths)
ResponseItems(kind, text) ==
    LET p1 == ModelProbClaim(text)
        claim == [label |-> IF kind = "labels" THEN "LABEL_1" ELSE "CLAIM", score |-> p1]
        non == [label |-> IF kind = "labels" THEN "LABEL_0" ELSE "NON-CLAIM", score |-> 10 - p1]
    IN  IF kind = "labels" THEN <<non, claim>>
        ELSE IF p1 > 10 - p1 THEN <<claim, non>> ELSE <<non, claim>>

\* 'CLAIM' in label, 'NON' in label for the upper-cased labels above
ContainsCLAIM(label) == label \in {"CLAIM", "NON-CLAIM"}
ContainsNON(label) == label = "NON-CLAIM"

\* the loop of _parse_api_response over the items: scores = <<non_claim_score, claim_score>>
RECURSIVE ScanItems(_, _)
ScanItems(items, scores) ==
    IF items = <<>> THEN scores
    ELSE LET label == Head(items).label
             score == Head(items).score
         IN  IF ContainsCLAIM(label) \/ label = "LABEL_1"
             THEN ScanItems(Tail(items), <<scores[1], score>>)
             ELSE IF ContainsNON(label) \/ label = "LABEL_0"
             THEN ScanItems(Tail(items), <<score, scores[2]>>)
             ELSE ScanItems(Tail(items), scores)

\* HuggingFaceClaimClassifier._parse_api_response
_parse_api_response(kind, sent, original_text) ==
    IF kind \in {"labels", "names"}
    THEN LET scores == ScanItems(ResponseItems(kind, sent), <<0, 0>>)
             non_claim_score == scores[1]
             claim_score == scores[2]
             is_claim == claim_score > non_claim_score
         IN  ClassificationResult(original_text, IF is_claim THEN "Claim" ELSE "Non-Claim",
                                  IF is_claim THEN claim_score ELSE non_claim_score,
                                  is_claim, <<non_claim_score, claim_score>>, MISSING)
    ELSE DefaultResult(original_text, MISSING)

\* HuggingFaceClaimClassifier.classify_sentence: val is the result, requests
\* the texts sent to the endpoint
HuggingFace_classify_sentence(sentence, kind) ==
    IF IsBlank(sentence)
    THEN [val |-> DefaultResult(sentence, MISSING), requests |-> <<>>]
    ELSE IF kind = "failed"
    THEN [val |-> DefaultResult(sentence, "ESGProcessingError"), requests |-> <<Strip(sentence)>>]
    ELSE [val |-> _parse_api_response(kind, Strip(sentence), sentence),
          requests |-> <<Strip(sentence)>>]

\* HuggingFaceClaimClassifier.filter_claims
RECURSIVE HuggingFace_filter_claims(_, _)
HuggingFace_filter_claims(classification_results, threshold) ==
    IF classification_results = <<>> THEN <<>>
    ELSE (IF Head(classification_results).is_claim
             /\ Head(classification_results).confidence >= threshold
          THEN <<Head(classification_results)>> ELSE <<>>)
         \o HuggingFace_filter_claims(Tail(classification_results), threshold)

\* the state of a concurrent batch classification by the remote classifier
VARIABLES r_pc, r_sentences, r_max_workers, r_callback, r_task, r_response, r_future, r_results,
          r_completed, r_requests, r_order

rvars == <<r_pc, r_sentences, r_max_workers, r_callback, r_task, r_response, r_future, r_results,
           r_completed, r_requests, r_order>>

\* ======================================== batch classification on its own
VARIABLES b_pc, b_impl, b_sentences, b_size, b_bad, b_results, b_calls,
          f_pc, f_threshold, f_claims

bvars == <<b_pc, b_impl, b_sentences, b_size, b_bad, b_results, b_calls,
           f_pc, f_threshold, f_claims>>

BatchIdle ==
    /\ b_pc = "idle"
    /\ b_impl = "none"
    /\ b_sentences = <<>>
    /\ b_size = 0
    /\ b_bad = {}
    /\ b_results = <<>>
    /\ b_calls = <<>>
    /\ f_pc = "idle"
    /\ f_threshold = 0
    /\ f_claims = <<>>

BatchInputs == SeqUpTo(AnySentences, MaxBatchInput)

\* claim_classifier.batch_classify(sentences): chunks of BATCH_SIZE
BatchClassifyCall ==
    /\ b_pc = "idle"
    /\ r_pc = "idle"
    /\ \E sentences \in BatchInputs, bad \in SUBSET {0} :
          LET out == batch_classify(sentences, BATCH_SIZE, bad)
          IN  /\ b_impl' = "ClaimClassifier"
              /\ b_sentences' = sentences
              /\ b_size' = BATCH_SIZE
              /\ b_bad' = bad
              /\ b_results' = out.val
              /\ b_calls' = batch_classify_calls(sentences, BATCH_SIZE, bad)
              /\ b_pc' = IF out.exc = "none" THEN "returned" ELSE "raised"
    /\ UNCHANGED <<f_pc, f_threshold, f_claims>>

\* claim_classifier.classify_sentence(sentence)
ClassifySentenceCall ==
    /\ b_pc = "idle"
    /\ r_pc = "idle"
    /\ \E sentence \in AnySentences, throws \in BOOLEAN :
          LET out == classify_sentence(sentence, throws)
          IN  /\ b_impl' = "classify_sentence"
              /\ b_sentences' = <<sentence>>
              /\ b_size' = 1
              /\ b_bad' = IF throws THEN {0} ELSE {}
              /\ b_results' = IF out.exc = "none" THEN <<out.val>> ELSE <<>>
              /\ b_calls' = out.calls
              /\ b_pc' = IF out.exc = "none" THEN "returned" ELSE "raised"
    /\ UNCHANGED <<f_pc, f_threshold, f_claims>>

\* the thresholds a caller passes to filter_claims (tenths); NoThreshold is
\* min_confidence=None
NoThreshold == 0 - 1
Thresholds == {NoThreshold, 0, 5, 6, 7, 9, 10}

\* claim_classifier.filter_claims(results, min_confidence) on the results of
\* the call before; self.confidence_threshold is CONFIDENCE_THRESHOLD
FilterClaimsCall ==
    /\ b_pc = "returned"
    /\ f_pc = "idle"
    /\ \E min_confidence \in Thresholds :
          /\ f_threshold' = min_confidence
          /\ f_claims' = filter_claims(b_results,
                             IF min_confidence # NoThreshold THEN min_confidence
                             ELSE CONFIDENCE_THRESHOLD)
    /\ f_pc' = "filtered"
    /\ UNCHANGED <<b_pc, b_impl, b_sentences, b_size, b_bad, b_results, b_calls>>

\* BatchProcessor(classifier, batch_size).process_sentences(sentences)
ProcessSentencesCall ==
    /\ b_pc = "idle"
    /\ r_pc = "idle"
    /\ \E sentences \in BatchInputs, size \in 0..MaxBatchSize :
          \E bad \in SUBSET ChunkStarts(Len(sentences), IF size = 0 THEN 16 ELSE size) :
              /\ b_impl' = "BatchProcessor"
              /\ b_sentences' = sentences
              /\ b_size' = size
              /\ b_bad' = bad
              /\ b_results' = process_sentences(sentences, size, bad)
              /\ b_calls' = InferenceCallsFrom(sentences, IF size = 0 THEN 16 ELSE size, 0, Len(sentences))
              /\ b_pc' = "returned"
    /\ UNCHANGED <<f_pc, f_threshold, f_claims>>

\* ============================== concurrent batch classification (remote)
\* results = [None] * len(sentences): a slot nothing was stored in
EmptySlot == ClassificationResult(<<"None">>, "None", 0, FALSE, <<0, 0>>, MISSING)

\* self.confidence_threshold of HuggingFaceClaimClassifier
HuggingFace_confidence_threshold == 7

\* the default of the parameter max_workers
DefaultMaxWorkers == 5

RemoteSentences == {S_pad, S_ws}
RemoteInputs == SeqUpTo(RemoteSentences, MaxRemoteInput)

\* progress_callback: absent or returning, or raising when it is called
ProgressCallbacks == {"returns", "raises"}

RemoteIdle ==
    /\ r_pc = "idle"
    /\ r_sentences = <<>>
    /\ r_max_workers = DefaultMaxWorkers
    /\ r_callback = "returns"
    /\ r_task = <<>>
    /\ r_response = <<>>
    /\ r_future = <<>>
    /\ r_results = <<>>
    /\ r_completed = 0
    /\ r_requests = {}
    /\ r_order = <<>>

\* batch_classify(sentences, max_workers=...): the slots are allocated and
\* every sentence is submitted to the pool
RemoteBatchClassifyCall ==
    /\ r_pc = "idle"
    /\ b_pc = "idle"
    /\ \E sentences \in RemoteInputs, max_workers \in {MaxPool, DefaultMaxWorkers},
          progress_callback \in ProgressCallbacks :
          /\ r_sentences' = sentences
          /\ r_max_workers' = max_workers
          /\ r_callback' = progress_callback
          /\ r_task' = [idx \in DOMAIN sentences |-> "queued"]
          /\ r_response' = [idx \in DOMAIN sentences |-> "none"]
          /\ r_future' = [idx \in DOMAIN sentences |-> EmptySlot]
          /\ r_results' = [idx \in DOMAIN sentences |-> EmptySlot]
          /\ r_pc' = IF sentences = <<>> THEN "returned" ELSE "running"
    /\ UNCHANGED <<r_completed, r_requests, r_order>>

Queued == {idx \in DOMAIN r_task : r_task[idx] = "queued"}
Running == {idx \in DOMAIN r_task : r_task[idx] = "running"}

\* a free worker of the pool takes the oldest submitted task
WorkerStart ==
    /\ r_pc = "running"
    /\ Queued # {}
    /\ Cardinality(Running) < r_max_workers
    /\ r_task' = [r_task EXCEPT ![SetMin(Queued)] = "running"]
    /\ UNCHANGED <<r_pc, r_sentences, r_max_workers, r_callback, r_response, r_future, r_results,
                   r_completed, r_requests, r_order>>

\* a worker finishes self.classify_sentence(sentence): the future is done
WorkerFinish ==
    /\ r_pc = "running"
    /\ \E idx \in Running, kind \in ResponseKinds :
          LET out == HuggingFace_classify_sentence(r_sentences[idx], kind)
          IN  /\ (out.requests = <<>>) => kind = "labels"
              /\ r_task' = [r_task EXCEPT ![idx] = "done"]
              /\ r_response' = [r_response EXCEPT ![idx] = IF out.requests = <<>> THEN "none" ELSE kind]
              /\ r_future' = [r_future EXCEPT ![idx] = out.val]
              /\ r_requests' = IF out.requests = <<>> THEN r_requests ELSE r_requests \cup {idx}
    /\ UNCHANGED <<r_pc, r_sentences, r_max_workers, r_callback, r_results, r_completed, r_order>>

\* the loop over as_completed with results appended in completion order
CollectInCompletionOrder ==
    /\ r_pc = "running"
    /\ \E idx \in DOMAIN r_task :
          /\ r_task[idx] = "done"
          /\ r_task' = [r_task EXCEPT ![idx] = "collected"]
          /\ r_results' = [r_results EXCEPT ![Len(r_order) + 1] = r_future[idx]]
          /\ r_order' = Append(r_order, idx)
    /\ r_completed' = r_completed + 1
    /\ UNCHANGED <<r_pc, r_sentences, r_max_workers, r_callback, r_response, r_future, r_requests>>

\* the loop over as_completed: results[idx] = future.result(); completed += 1;
\* progress_callback(completed / total_sentences); when the callback raises,
\* the inner handler stores the default in the slot and counts once more
Collect ==
    /\ r_pc = "running"
    /\ \E idx \in DOMAIN r_task :
          /\ r_task[idx] = "done"
          /\ r_task' = [r_task EXCEPT ![idx] = "collected"]
          /\ r_results' = [r_results EXCEPT ![idx] =
                              IF r_callback = "raises"
                              THEN DefaultResult(r_sentences[idx], "Exception")
                              ELSE r_future[idx]]
          /\ r_order' = Append(r_order, idx)
    /\ r_completed' = IF r_callback = "raises" THEN r_completed + 2 ELSE r_completed + 1
    /\ UNCHANGED <<r_pc, r_sentences, r_max_workers, r_callback, r_response, r_future, r_requests>>

\* as_completed is exhausted, the pool shuts down, return results
RemoteReturn ==
    /\ r_pc = "running"
    /\ \A idx \in DOMAIN r_task : r_task[idx] = "collected"
    /\ r_pc' = "returned"
    /\ UNCHANGED <<r_sentences, r_max_workers, r_callback, r_task, r_response, r_future, r_results,
                   r_completed, r_requests, r_order>>

\* hf_classifier.filter_claims(results, min_confidence) on the returned list
RemoteFilterClaimsCall ==
    /\ r_pc = "returned"
    /\ f_pc = "idle"
    /\ \E min_confidence \in Thresholds :
          /\ f_threshold' = min_confidence
          /\ f_claims' = HuggingFace_filter_claims(r_results,
                             IF min_confidence # NoThreshold THEN min_confidence
                             ELSE HuggingFace_confidence_threshold)
    /\ f_pc' = "filtered"
    /\ UNCHANGED <<b_pc, b_impl, b_sentences, b_size, b_bad, b_results, b_calls>>
    /\ UNCHANGED rvars

\* ================================================== verify_claim on its own
\* ------------------------------------------- company name from a file name
\* A file name stem is a sequence of parts, each a token with the separator
\* written before it ("" when the token is glued to the one before). A token
\* is <<letters or digits, case>>; digits have the case "lower". A word is a
\* sequence of tokens, a name is a sequence of words joined by single spaces.
Separators == {"", "_", "-"}
FileTokens ==
    {<<"apple", "capital">>, <<"inc", "upper">>, <<"sustainability", "capital">>,
     <<"report", "capital">>, <<"2023", "lower">>, <<"12", "lower">>}
DigitTokens == {"2020", "2021", "2022", "2023", "2024", "2025", "12"}
FileParts == {[sep |-> sp, token |-> t] : sp \in Separators, t \in FileTokens}
Filenames == SeqUpTo(FileParts, MaxParts)

\* name.replace('_', ' ').replace('-', ' ') and name.split(): the words of the stem
RECURSIVE SplitWords(_, _, _)
SplitWords(parts, word, words) ==
    IF parts = <<>> THEN (IF word = <<>> THEN words ELSE Append(words, word))
    ELSE IF Head(parts).sep = "" THEN SplitWords(Tail(parts), Append(word, Head(parts).token), words)
    ELSE SplitWords(Tail(parts), <<Head(parts).token>>,
                    IF word = <<>> THEN words ELSE Append(words, word))

\* word.lower()
LowerWord(word) == [i \in DOMAIN word |-> <<word[i][1], "lower">>]

\* word.capitalize(): first character upper case, the rest lower case
CapitalizeWord(word) ==
    [i \in DOMAIN word |->
        <<word[i][1], IF i = 1 /\ word[1][1] \notin DigitTokens THEN "capital" ELSE "lower">>]

\* the one-word entries of terms_to_remove
terms_to_remove ==
    {"sustainability", "annual", "report", "csr", "esg",
     "2020", "2021", "2022", "2023", "2024", "2025"}

\* word in [term.lower() for term in terms_to_remove]
IsTerm(word) == Len(word) = 1 /\ word[1] \in {<<t, "lower">> : t \in terms_to_remove}

\* word.isdigit()
IsDigit(word) == \A i \in DOMAIN word : word[i][1] \in DigitTokens

\* the years and the first words of the two-word entries of suffixes_to_remove
SuffixYears == {"2020", "2021", "2022", "2023", "2024", "2025"}
SuffixReports == {"sustainability", "annual", "csr", "esg"}

\* the while loop of the fallback: suffixes are cut off the end of the name
\* as long as one of them is found there and something is left before it
RECURSIVE RemoveSuffixes(_)
RemoveSuffixes(name) ==
    LET n == Len(name)
        last == IF n = 0 THEN <<>> ELSE LowerWord(name[n])
    IN  IF n >= 3 /\ last = <<<<"report", "lower">>>> /\ Len(name[n - 1]) = 1
           /\ LowerWord(name[n - 1])[1][1] \in SuffixReports
        THEN RemoveSuffixes(SubSeq(name, 1, n - 2))
        ELSE IF n >= 2 /\ Len(last) = 1 /\ last[1][1] \in SuffixYears
        THEN RemoveSuffixes(SubSeq(name, 1, n - 1))
        ELSE IF n >= 1 /\ Len(last) >= 2 /\ last[Len(last)][1] \in SuffixYears
        THEN RemoveSuffixes([name EXCEPT ![n] = SubSeq(name[n], 1, Len(name[n]) - 1)])
        ELSE name

UnknownCompany == <<<<<<"unknown", "capital">>>>, <<<<"company", "capital">>>>>>

\* the comparison of the words with the terms without word.lower()
extract_company_name_case_sensitive(filename) ==
    LET words == SplitWords(filename, <<>>, <<>>)
        filtered_words == SelectSeq(words, LAMBDA w : ~IsTerm(w) /\ ~IsDigit(w))
    IN  IF filtered_words # <<>>
        THEN [i \in DOMAIN filtered_words |-> CapitalizeWord(filtered_words[i])]
        ELSE LET name == RemoveSuffixes(words)
             IN  IF name = <<>> THEN UnknownCompany
                 ELSE [i \in DOMAIN name |-> CapitalizeWord(name[i])]

\* extract_company_name_from_filename, applied to the stem of the file name
extract_company_name_from_filename(filename) ==
    LET name == SplitWords(filename, <<>>, <<>>)
        words == [i \in DOMAIN name |-> LowerWord(name[i])]
        filtered_words == SelectSeq(words, LAMBDA w : ~IsTerm(w) /\ ~IsDigit(w))
    IN  IF filtered_words # <<>>
        THEN [i \in DOMAIN filtered_words |-> CapitalizeWord(filtered_words[i])]
        ELSE LET stripped == RemoveSuffixes(name)
             IN  IF stripped = <<>> THEN UnknownCompany
                 ELSE [i \in DOMAIN stripped |-> CapitalizeWord(stripped[i])]

\* -------------------------------------------------------- sentence splitter
\* A sentence of a cleaned text: the number of characters before its closing
\* punctuation, the number of its words, and whether it has the closing mark.
TextSentences ==
    {[body |-> b, words |-> w, mark |-> m] : b \in 8..11, w \in 3..4, m \in BOOLEAN}
Texts == SeqUpTo(TextSentences, MaxSentences)

\* len(sentence) of a sentence sent_tokenize returns (the mark belongs to it)
\* and of a piece re.split(r'[.!?]+') returns (the mark is cut away)
TokenizedLen(sentence) == sentence.body + (IF sentence.mark THEN 1 ELSE 0)
RegexLen(sentence) == sentence.body

\* PDFExtractor.split_into_sentences: the lengths and word counts of the
\* sentences it returns; tokenizer_fails when sent_tokenize raises
split_into_sentences(text, tokenizer_fails) ==
    IF ~tokenizer_fails
    THEN LET kept == SelectSeq(text, LAMBDA x : TokenizedLen(x) > 10 /\ x.words > 3)
         IN  [i \in DOMAIN kept |-> [chars |-> TokenizedLen(kept[i]), words |-> kept[i].words]]
    ELSE LET kept == SelectSeq(text, LAMBDA x : RegexLen(x) > 10)
         IN  [i \in DOMAIN kept |-> [chars |-> RegexLen(kept[i]), words |-> kept[i].words]]

VARIABLES n_pc, n_filename, n_result, s_pc, s_text, s_fails, s_out,
          q_pc, q_max_retries, q_attempt, q_answers, q_waits, q_result

nvars == <<n_pc, n_filename, n_result, s_pc, s_text, s_fails, s_out,
           q_pc, q_max_retries, q_attempt, q_answers, q_waits, q_result>>

qvars == <<q_pc, q_max_retries, q_attempt, q_answers, q_waits, q_result>>

NameIdle ==
    /\ n_pc = "idle"
    /\ n_filename = <<>>
    /\ n_result = <<>>

SplitIdle ==
    /\ s_pc = "idle"
    /\ s_text = <<>>
    /\ s_fails = FALSE
    /\ s_out = <<>>

\* ---------------------------------------------- the remote request helper
\* what one requests.post comes to: status 200, status 503, a timeout, another
\* request error (raise_for_status of a status from 400 on included), or a
\* status below 400 that is not 200
Answers == {"ok", "busy", "timeout", "error", "other"}

\* time.sleep after a 503 answer without the cap
BusyWaitUncapped(attempt) == 20 * (attempt + 1)

\* wait_time = min(20 * (attempt + 1), 60)
BusyWait(attempt) == Min(20 * (attempt + 1), 60)

\* time.sleep(5) before the retry after a timeout or a request error
RetryWait == 5

RequestIdle ==
    /\ q_pc = "idle"
    /\ q_max_retries = 0
    /\ q_attempt = 0
    /\ q_answers = <<>>
    /\ q_waits = <<>>
    /\ q_result = EmptySlot

\* one pass of the loop for attempt in range(max_retries): the request is
\* sent and answered
SendRequest ==
    /\ q_pc = "loop"
    /\ q_attempt < q_max_retries
    /\ \E answer \in Answers :
          /\ q_answers' = Append(q_answers, answer)
          /\ CASE answer = "ok" ->
                    /\ q_pc' = "returned"
                    /\ q_waits' = Append(q_waits, 0)
                    /\ q_attempt' = q_attempt
              [] answer = "busy" ->
                    /\ q_pc' = "loop"
                    /\ q_waits' = Append(q_waits, BusyWait(q_attempt))
                    /\ q_attempt' = q_attempt + 1
              [] answer \in {"timeout", "error"} ->
                    IF q_attempt < q_max_retries - 1
                    THEN /\ q_pc' = "loop"
                         /\ q_waits' = Append(q_waits, RetryWait)
                         /\ q_attempt' = q_attempt + 1
                    ELSE /\ q_pc' = "raised"
                         /\ q_waits' = Append(q_waits, 0)
                         /\ q_attempt' = q_attempt
              [] answer = "other" ->
                    /\ q_pc' = "loop"
                    /\ q_waits' = Append(q_waits, 0)
                    /\ q_attempt' = q_attempt + 1
    /\ UNCHANGED <<q_max_retries, q_result>>
    /\ UNCHANGED <<n_pc, n_filename, n_result, s_pc, s_text, s_fails, s_out>>

\* the loop is over: raise ESGProcessingError("... after all retry attempts")
RetriesExhausted ==
    /\ q_pc = "loop"
    /\ q_attempt >= q_max_retries
    /\ q_pc' = "raised"
    /\ UNCHANGED <<q_max_retries, q_attempt, q_answers, q_waits, q_result>>
    /\ UNCHANGED <<n_pc, n_filename, n_result, s_pc, s_text, s_fails, s_out>>

\* classify_sentence around the helper: the answer is parsed, the error
\* becomes the default result
ClassifyAfterRequest ==
    /\ q_pc \in {"returned", "raised"}
    /\ q_result' = HuggingFace_classify_sentence(S_pad, IF q_pc = "raised" THEN "failed" ELSE "labels").val
    /\ q_pc' = IF q_pc = "raised" THEN "defaulted" ELSE "classified"
    /\ UNCHANGED <<q_max_retries, q_attempt, q_answers, q_waits>>
    /\ UNCHANGED <<n_pc, n_filename, n_result, s_pc, s_text, s_fails, s_out>>

\* one call extractor.split_into_sentences(text)
SplitIntoSentencesCall ==
    /\ s_pc = "call"
    /\ s_out' = split_into_sentences(s_text, s_fails)
    /\ s_pc' = "returned"
    /\ UNCHANGED <<s_text, s_fails, n_pc, n_filename, n_result, qvars>>

\* one call extract_company_name_from_filename(filename)
ExtractCompanyNameCall ==
    /\ n_pc = "call"
    /\ n_result' = extract_company_name_from_filename(n_filename)
    /\ n_pc' = "returned"
    /\ UNCHANGED <<n_filename, s_pc, s_text, s_fails, s_out, qvars>>

VARIABLES v_pc, v_gemini, v_company, v_reply, v_exc, v_result, v_requests,
          e_pc, e_gemini, e_text, e_reply, e_fact

vvars == <<v_pc, v_gemini, v_company, v_reply, v_exc, v_result, v_requests,
           e_pc, e_gemini, e_text, e_reply, e_fact, nvars>>

NoFact == ExtractedClaimData(NONE, JNull, NONE, JNull, JNull, <<"None">>)

NoVerdict == VerificationResult(NONE, 0, NONE, FALSE, FALSE, NONE)

VerifyIdle ==
    /\ v_pc = "idle"
    /\ v_gemini = FALSE
    /\ v_company = <<>>
    /\ v_reply = ThrowReply
    /\ v_exc = "none"
    /\ v_result = NoVerdict
    /\ v_requests = 0
    /\ e_pc = "idle"
    /\ e_gemini = FALSE
    /\ e_text = <<>>
    /\ e_reply = ExtractThrow
    /\ e_fact = NoFact
    /\ NameIdle
    /\ SplitIdle
    /\ RequestIdle

\* one call verifier.verify_claim(claim_data, company_name) on a verifier whose
\* dataset is loaded; the reasoning service answers with reply
VerifyClaimCall ==
    /\ v_pc = "idle"
    /\ e_pc = "idle"
    /\ UNCHANGED <<e_pc, e_gemini, e_text, e_reply, e_fact, nvars>>
    /\ \E g \in BOOLEAN, name \in Names \cup {NoneStr}, reply \in GeminiReplies :
          LET out == verify_claim(g, Dataset, name, reply)
          IN  /\ v_gemini' = g
              /\ v_company' = name
              /\ v_reply' = reply
              /\ v_exc' = out.exc
              /\ v_result' = IF out.exc = "none" THEN out.val ELSE NoVerdict
              /\ v_requests' = out.requests
              /\ v_pc' = IF out.exc = "none" THEN "returned" ELSE "raised"

\* the claim texts given to the fact extractor
ClaimTexts == AnySentences

\* one call verifier.extract_claim_data(claim_text); the reasoning service
\* answers the extraction prompt with reply
ExtractClaimDataCall ==
    /\ e_pc = "idle"
    /\ v_pc = "idle"
    /\ \E g \in BOOLEAN, claim_text \in ClaimTexts, reply \in ExtractReplies :
          /\ e_gemini' = g
          /\ e_text' = claim_text
          /\ e_reply' = reply
          /\ e_fact' = extract_claim_data(g, claim_text, reply)
    /\ e_pc' = "returned"
    /\ UNCHANGED <<v_pc, v_gemini, v_company, v_reply, v_exc, v_result, v_requests, nvars>>

\* ================================================= the pipeline and the CLI
VARIABLES pc, caller, observer, request, pdf, company_name, gemini_model, confidence_threshold,
          status, snapshots,
          sentences, classification_results, claims, verified_claims, results, raised,
          status_files, cli

datavars == <<sentences, classification_results, claims, verified_claims>>
inputvars == <<caller, observer, request, pdf, company_name, gemini_model, confidence_threshold>>
pvars == <<pc, inputvars, status, snapshots, datavars, results, raised, status_files, cli>>

\* what the command line run has produced besides the status files
NewCli == [results_file |-> FALSE, exit_code |-> 0 - 1, stderr_error |-> FALSE, stdout_results |-> FALSE]

\* the documents: a file that does not exist, a file no text can be taken
\* from, or a file with text, given by the sentences process_pdf returns (a
\* freely chosen head, then nothing or one full chunk of plain sentences)
Padding == [i \in 1..BATCH_SIZE |-> S_non]

Pdfs ==
    {[kind |-> "missing", sentences |-> <<>>], [kind |-> "no_text", sentences |-> <<>>]}
    \cup {[kind |-> "text", sentences |-> head \o pad] :
            head \in SeqUpTo(DocSentences, MaxHead), pad \in {<<>>, Padding}}

\* the company names given to the pipeline: with reference rows, without,
\* the empty string, None
PipelineCompanies == {<<"a", "b">>, <<"b">>, <<>>, NoneStr}

\* the answers the reasoning service gives while a document is processed
PipelineReplies ==
    {ThrowReply,
     GeminiReply("json", "none", "object", {}, "verified", JNum(9), JBool(TRUE), JMissing),
     GeminiReply("json", "json", "object", {}, "supported", JNum(9), JBool(TRUE), JMissing)}

PipelineExtractReplies ==
    {ExtractThrow, ExtractReply("json", "object", "emissions", JNum(2023), JNum(250))}

PipelineIdle ==
    /\ pc = "off"
    /\ caller = "none"
    /\ observer = "none"
    /\ request = 0
    /\ pdf = [kind |-> "missing", sentences |-> <<>>]
    /\ company_name = <<>>
    /\ gemini_model = FALSE
    /\ confidence_threshold = NoThreshold
    /\ status = NewProcessingStatus
    /\ snapshots = <<>>
    /\ sentences = <<>>
    /\ classification_results = <<>>
    /\ claims = <<>>
    /\ verified_claims = <<>>
    /\ results = NoResults
    /\ raised = NoExc
    /\ status_files = <<>>
    /\ cli = NewCli

\* the confidence_threshold a library caller gives to NLPProcessor(...)
\* (tenths); NoThreshold is the default None
ConstructorThresholds == {NoThreshold, 0, 9}

\* self.confidence_threshold = confidence_threshold or CONFIDENCE_THRESHOLD:
\* None and 0.0 are both false
self_confidence_threshold ==
    IF confidence_threshold = NoThreshold \/ confidence_threshold = 0
    THEN CONFIDENCE_THRESHOLD
    ELSE confidence_threshold

\* NLPProcessor() built by the caller: main of process_document.py with its
\* file-writing callback, or a library caller with no observer or with one
\* that may raise
InitPipeline ==
    /\ caller \in {"cli", "lib"}
    /\ observer \in IF caller = "cli" THEN {"safe"} ELSE {"none", "raising"}
    /\ request = 1
    /\ pdf \in Pdfs
    /\ caller = "cli" => pdf.kind # "missing"
    /\ company_name \in PipelineCompanies
    /\ caller = "cli" => company_name \notin {NoneStr, <<>>}
    /\ gemini_model \in BOOLEAN
    /\ confidence_threshold \in IF caller = "cli" THEN {NoThreshold} ELSE ConstructorThresholds
    /\ pc = IF caller = "cli" THEN "cli_main" ELSE "call"
    /\ status = NewProcessingStatus
    /\ snapshots = <<>>
    /\ sentences = <<>>
    /\ classification_results = <<>>
    /\ claims = <<>>
    /\ verified_claims = <<>>
    /\ results = NoResults
    /\ raised = NoExc
    /\ status_files = <<>>
    /\ cli = NewCli

\* the status file the callback of process_document.py writes for a snapshot
StatusFileOf(snapshot) ==
    [status |-> MISSING, progress |-> snapshot.progress, current_step |-> snapshot.current_step]

\* if progress_callback: progress_callback(self.status.get_status_dict())
Seen(st) == IF observer = "none" THEN <<>> ELSE <<st>>

\* whether the observer raises when it is called
CallbackOutcomes == IF observer = "raising" THEN BOOLEAN ELSE {FALSE}

CallbackError == Exc("RuntimeError", <<"progress callback failed">>)

Emit(new_snapshots) ==
    /\ snapshots' = snapshots \o new_snapshots
    /\ status_files' =
          IF caller = "cli"
          THEN status_files \o [i \in DOMAIN new_snapshots |-> StatusFileOf(new_snapshots[i])]
          ELSE status_files

\* the except branch without the add_error call
AbortUnrecorded(st, new_snapshots, e) ==
    /\ status' = st
    /\ raised' = Exc("ESGProcessingError", <<"Processing failed">> \o e.msg)
    /\ Emit(new_snapshots)
    /\ pc' = "raised"
    /\ UNCHANGED <<results, cli, inputvars>>

\* the except branch of process_pdf_document
Abort(st, new_snapshots, e) ==
    /\ status' = add_error(st, <<"Processing failed">> \o e.msg)
    /\ raised' = Exc("ESGProcessingError", <<"Processing failed">> \o e.msg)
    /\ Emit(new_snapshots)
    /\ pc' = "raised"
    /\ UNCHANGED <<results, cli, inputvars>>

StepPc(k) ==
    CASE k = 1 -> "step1" [] k = 2 -> "step2" [] k = 3 -> "step3"
      [] k = 4 -> "step4" [] k = 5 -> "step5" [] k = 6 -> "step6"

\* step k is done: update_step_progress(1.0), update_step(next), callback
Advance(k, st, new_snapshots) ==
    LET st1 == update_step(update_step_progress(st, One), StepName(k + 1), k + 1)
    IN  \E cb_raises \in CallbackOutcomes :
            IF cb_raises
            THEN Abort(st1, new_snapshots \o Seen(st1), CallbackError)
            ELSE /\ status' = st1
                 /\ Emit(new_snapshots \o Seen(st1))
                 /\ pc' = StepPc(k + 1)
                 /\ UNCHANGED <<results, raised, cli, inputvars>>

\* main of process_document.py up to the call of the pipeline
CliStart ==
    /\ pc = "cli_main"
    /\ status_files' = <<[status |-> "starting", progress |-> Zero, current_step |-> "Initializing"]>>
    /\ pc' = "call"
    /\ UNCHANGED <<inputvars, status, snapshots, datavars, results, raised, cli>>

\* process_pdf_document: start_processing and the announcement of step 1
BeginProcessing ==
    /\ pc = "call"
    /\ LET st1 == update_step(start_processing(status), StepName(1), 1)
       IN  \E cb_raises \in CallbackOutcomes :
               IF cb_raises
               THEN Abort(st1, Seen(st1), CallbackError)
               ELSE /\ status' = st1
                    /\ Emit(Seen(st1))
                    /\ pc' = "step1"
                    /\ UNCHANGED <<results, raised, cli, inputvars>>
    /\ UNCHANGED datavars

\* step 1: _initialize_components
InitializeComponents ==
    /\ pc = "step1"
    /\ \E ok \in BOOLEAN :
          IF ok THEN Advance(1, status, <<>>)
          ELSE Abort(add_error(status, <<"Failed to initialize components">>), <<>>,
                     Exc("ESGProcessingError", <<"Failed to initialize components">>))
    /\ UNCHANGED datavars

\* PDFExtractor.process_pdf
process_pdf(document) ==
    CASE document.kind = "missing" ->
            Exc("PDFExtractionError", <<"Failed to process PDF", "PDF file not found">>)
      [] document.kind = "no_text" ->
            Exc("PDFExtractionError", <<"Failed to process PDF", "No text could be extracted from PDF">>)
      [] OTHER -> NoExc

\* step 2: _extract_pdf_text
ExtractPdfText ==
    /\ pc = "step2"
    /\ LET e == process_pdf(pdf)
       IN  IF e.type # "none"
           THEN /\ Abort(status, <<>>, Exc("PDFExtractionError", <<"PDF text extraction failed">> \o e.msg))
                /\ sentences' = <<>>
           ELSE IF pdf.sentences = <<>>
           THEN /\ Advance(2, add_warning(status, <<"No sentences extracted from PDF", 0>>), <<>>)
                /\ sentences' = <<>>
           ELSE /\ Advance(2, status, <<>>)
                /\ sentences' = pdf.sentences
    /\ UNCHANGED <<classification_results, claims, verified_claims>>

\* min((i + BATCH_SIZE) / total_sentences, 1.0) after chunk number j
ChunkProgress(j, total) ==
    IF j * BATCH_SIZE >= total THEN One ELSE <<j * BATCH_SIZE, total>>

\* step 3: _classify_claims; bad are the chunks whose inference call raises,
\* cb_at the chunk at whose progress report the observer raises (0: never)
ClassifyClaims ==
    /\ pc = "step3"
    /\ IF sentences = <<>>
       THEN /\ Advance(3, status, <<>>)
            /\ classification_results' = <<>>
       ELSE \E bad \in SUBSET ChunkStarts(Len(sentences), BATCH_SIZE) :
              LET out == batch_classify(sentences, BATCH_SIZE, bad)
              IN  \E cb_at \in IF observer = "raising" THEN 0..out.done ELSE {0} :
                    LET reported == IF cb_at # 0 THEN cb_at ELSE out.done
                        ChunkStatus(j) == update_step_progress(status, ChunkProgress(j, Len(sentences)))
                        new_snapshots == IF observer = "none" THEN <<>>
                                         ELSE [j \in 1..reported |-> ChunkStatus(j)]
                        st == IF reported = 0 THEN status ELSE ChunkStatus(reported)
                    IN  IF out.exc # "none" \/ cb_at # 0
                        THEN /\ Abort(st, new_snapshots,
                                      Exc("ModelLoadError",
                                          <<"Claim classification failed", "Batch classification failed",
                                            IF cb_at # 0 THEN "progress callback failed" ELSE out.exc>>))
                             /\ classification_results' = <<>>
                        ELSE /\ Advance(3, st, new_snapshots)
                             /\ classification_results' = out.val
    /\ UNCHANGED <<sentences, claims, verified_claims>>

\* the dictionary 'extracted_data' of a processed claim
ExtractedData(fact) ==
    [metric |-> fact.metric, value |-> fact.value, unit |-> fact.unit,
     year |-> fact.year, percentage |-> fact.percentage]

\* the loop of _process_detected_claims from filtered claim i on: throws are
\* the claims for which extract_claim_data raises, reply_of the answers of the
\* reasoning service
RECURSIVE ProcessLoop(_, _, _, _, _)
ProcessLoop(filtered, i, throws, reply_of, acc) ==
    IF i > Len(filtered) THEN acc
    ELSE IF i \in throws
    THEN ProcessLoop(filtered, i + 1, throws, reply_of,
                     [acc EXCEPT !.status = add_warning(@, <<"Failed to extract data from claim", i>>)])
    ELSE ProcessLoop(filtered, i + 1, throws, reply_of,
                     [acc EXCEPT !.claims = Append(@,
                         [id |-> i, text |-> filtered[i].text, confidence |-> filtered[i].confidence,
                          extracted_data |->
                             ExtractedData(extract_claim_data(gemini_model, filtered[i].text, reply_of[i]))])])

\* step 4 with the per-claim handler removed: a failing extraction ends the step
ProcessDetectedClaimsAbortOnFailure ==
    /\ pc = "step4"
    /\ LET filtered == filter_claims(classification_results, self_confidence_threshold)
       IN  IF filtered = <<>>
           THEN /\ Advance(4, add_warning(status, <<"No claims detected above confidence threshold", 0>>), <<>>)
                /\ claims' = <<>>
           ELSE \E throws \in SUBSET DOMAIN filtered :
                \E reply_of \in [DOMAIN filtered -> IF gemini_model THEN PipelineExtractReplies ELSE {ExtractThrow}] :
                   LET out == ProcessLoop(filtered, 1, {}, reply_of, [status |-> status, claims |-> <<>>])
                   IN  IF throws # {}
                       THEN /\ Abort(status, <<>>, Exc("ESGProcessingError", <<"Claim processing failed">>))
                            /\ claims' = <<>>
                       ELSE /\ Advance(4, out.status, <<>>)
                            /\ claims' = out.claims
    /\ UNCHANGED <<sentences, classification_results, verified_claims>>

\* step 4: _process_detected_claims
ProcessDetectedClaims ==
    /\ pc = "step4"
    /\ LET filtered == filter_claims(classification_results, self_confidence_threshold)
       IN  IF filtered = <<>>
           THEN /\ Advance(4, add_warning(status, <<"No claims detected above confidence threshold", 0>>), <<>>)
                /\ claims' = <<>>
           ELSE \E throws \in SUBSET DOMAIN filtered :
                \E reply_of \in [DOMAIN filtered -> IF gemini_model THEN PipelineExtractReplies ELSE {ExtractThrow}] :
                   LET out == ProcessLoop(filtered, 1, throws, reply_of, [status |-> status, claims |-> <<>>])
                   IN  /\ Advance(4, out.status, <<>>)
                       /\ claims' = out.claims
    /\ UNCHANGED <<sentences, classification_results, verified_claims>>

\* {**claim, 'verification_status': ..., 'match_details': {...}}
VerifiedClaim(claim, verdict) ==
    [id |-> claim.id, text |-> claim.text, confidence |-> claim.confidence,
     extracted_data |-> claim.extracted_data,
     verification_status |-> verdict.status,
     verification_confidence |-> verdict.confidence,
     match_details |-> [csv_match |-> verdict.csv_match, tolerance_check |-> verdict.tolerance_check,
                        reasoning |-> verdict.reasoning, matched_data |-> verdict.matched_data]]

\* the claim the except branch of the verification loop appends
UnverifiedClaim(claim) ==
    VerifiedClaim(claim, VerificationResult("unverified", 0, "Verification failed", FALSE, FALSE, NONE))

\* the loop of _verify_claims whose except branch records the warning and
\* leaves the claim out
RECURSIVE VerifyLoopDropping(_, _, _, _, _)
VerifyLoopDropping(todo, i, reply_of, cb_raises, acc) ==
    IF i > Len(todo) THEN acc
    ELSE LET claim == todo[i]
             verdict == verify_claim(gemini_model, Dataset, company_name, reply_of[i])
             reported == update_step_progress(acc.status, <<i, Len(todo)>>)
         IN  IF verdict.exc # "none"
             THEN VerifyLoopDropping(todo, i + 1, reply_of, cb_raises,
                      [acc EXCEPT !.status = add_warning(@, <<"Failed to verify claim", claim.id>>)])
             ELSE VerifyLoopDropping(todo, i + 1, reply_of, cb_raises,
                      [acc EXCEPT !.status = reported,
                                  !.snapshots = @ \o Seen(reported),
                                  !.verified = Append(@, VerifiedClaim(claim, verdict.val))])

\* the loop of _verify_claims from claim i on: reply_of are the answers of the
\* reasoning service, cb_raises the claims at whose progress report the
\* observer raises
RECURSIVE VerifyLoop(_, _, _, _, _)
VerifyLoop(todo, i, reply_of, cb_raises, acc) ==
    IF i > Len(todo) THEN acc
    ELSE LET claim == todo[i]
             verdict == verify_claim(gemini_model, Dataset, company_name, reply_of[i])
             reported == update_step_progress(acc.status, <<i, Len(todo)>>)
             failed == add_warning(IF verdict.exc = "none" THEN reported ELSE acc.status,
                                   <<"Failed to verify claim", claim.id>>)
         IN  IF verdict.exc # "none"
             THEN VerifyLoop(todo, i + 1, reply_of, cb_raises,
                             [acc EXCEPT !.status = failed,
                                         !.verified = Append(@, UnverifiedClaim(claim))])
             ELSE IF observer # "none" /\ i \in cb_raises
             THEN VerifyLoop(todo, i + 1, reply_of, cb_raises,
                             [acc EXCEPT !.status = failed,
                                         !.snapshots = Append(@, reported),
                                         !.verified = @ \o <<VerifiedClaim(claim, verdict.val),
                                                             UnverifiedClaim(claim)>>])
             ELSE VerifyLoop(todo, i + 1, reply_of, cb_raises,
                             [acc EXCEPT !.status = reported,
                                         !.snapshots = @ \o Seen(reported),
                                         !.verified = Append(@, VerifiedClaim(claim, verdict.val))])

\* step 5: _verify_claims
VerifyClaims ==
    /\ pc = "step5"
    /\ IF claims = <<>>
       THEN /\ Advance(5, status, <<>>)
            /\ verified_claims' = <<>>
       ELSE \E reply_of \in [DOMAIN claims -> IF gemini_model THEN PipelineReplies ELSE {ThrowReply}] :
            \E cb_raises \in IF observer = "raising" THEN SUBSET DOMAIN claims ELSE {{}} :
               LET out == VerifyLoop(claims, 1, reply_of, cb_raises,
                                     [status |-> status, snapshots |-> <<>>, verified |-> <<>>])
               IN  /\ Advance(5, out.status, out.snapshots)
                   /\ verified_claims' = out.verified
    /\ UNCHANGED <<sentences, classification_results, claims>>

\* step 6 and the return: _format_results, complete_processing, callback
FormatResults ==
    /\ pc = "step6"
    /\ LET formatted == format_processing_results(sentences, verified_claims, status)
           done == complete_processing(update_step_progress(status, One))
       IN  IF formatted.exc # "none"
           THEN Abort(status, <<>>, Exc("ESGProcessingError", <<"Results formatting failed", formatted.exc>>))
           ELSE \E cb_raises \in CallbackOutcomes :
                   IF cb_raises
                   THEN Abort(done, Seen(done), CallbackError)
                   ELSE /\ status' = done
                        /\ Emit(Seen(done))
                        /\ results' = formatted.val
                        /\ pc' = "returned"
                        /\ UNCHANGED <<raised, cli, inputvars>>
    /\ UNCHANGED datavars

\* main whose except branch forgets sys.exit(1) and the error status
CliFinishNoErrorExit ==
    /\ caller = "cli"
    /\ pc \in {"returned", "raised"}
    /\ IF pc = "returned"
       THEN /\ cli' = [results_file |-> TRUE, exit_code |-> 0, stderr_error |-> FALSE,
                       stdout_results |-> TRUE]
            /\ status_files' = Append(status_files,
                   [status |-> "completed", progress |-> One, current_step |-> "Complete"])
       ELSE /\ cli' = [results_file |-> FALSE, exit_code |-> 0, stderr_error |-> TRUE,
                       stdout_results |-> FALSE]
            /\ status_files' = status_files
    /\ pc' = IF pc = "returned" THEN "exit_ok" ELSE "exit_error"
    /\ UNCHANGED <<inputvars, status, snapshots, datavars, results, raised>>

\* main of process_document.py after the pipeline returned or raised
CliFinish ==
    /\ caller = "cli"
    /\ pc \in {"returned", "raised"}
    /\ IF pc = "returned"
       THEN /\ cli' = [results_file |-> TRUE, exit_code |-> 0, stderr_error |-> FALSE,
                       stdout_results |-> TRUE]
            /\ status_files' = Append(status_files,
                   [status |-> "completed", progress |-> One, current_step |-> "Complete"])
       ELSE /\ cli' = [results_file |-> FALSE, exit_code |-> 1, stderr_error |-> TRUE,
                       stdout_results |-> FALSE]
            /\ status_files' = Append(status_files,
                   [status |-> "error", progress |-> Zero, current_step |-> "Failed"])
    /\ pc' = IF pc = "returned" THEN "exit_ok" ELSE "exit_error"
    /\ UNCHANGED <<inputvars, status, snapshots, datavars, results, raised>>

\* ------------------------------------------------------------ the HTTP server
\* the documents uploaded to the server
ServerPdfs ==
    {[kind |-> "no_text", sentences |-> <<>>]}
    \cup {[kind |-> "text", sentences |-> head] : head \in SeqUpTo({S_hi, S_non}, 1)}

\* the first POST /api/process-document: initialize_nlp_processor builds the
\* module-level NLPProcessor, the handler passes its logging callback
InitServer ==
    /\ caller = "server"
    /\ observer = "safe"
    /\ request = 1
    /\ pdf \in ServerPdfs
    /\ company_name \in PipelineCompanies \ {NoneStr, <<>>}
    /\ gemini_model \in BOOLEAN
    /\ confidence_threshold = NoThreshold
    /\ pc = "call"
    /\ status = NewProcessingStatus
    /\ snapshots = <<>>
    /\ sentences = <<>>
    /\ classification_results = <<>>
    /\ claims = <<>>
    /\ verified_claims = <<>>
    /\ results = NoResults
    /\ raised = NoExc
    /\ status_files = <<>>
    /\ cli = NewCli

\* a later POST /api/process-document, after the response to the one before:
\* initialize_nlp_processor returns the instance that exists, with its status
\* object, and process_pdf_document is called on it for the new upload
ServerNextRequest ==
    /\ caller = "server"
    /\ pc \in {"returned", "raised"}
    /\ request < MaxRequests
    /\ request' = request + 1
    /\ pdf' \in ServerPdfs
    /\ company_name' \in PipelineCompanies \ {NoneStr, <<>>}
    /\ pc' = "call"
    /\ snapshots' = <<>>
    /\ sentences' = <<>>
    /\ classification_results' = <<>>
    /\ claims' = <<>>
    /\ verified_claims' = <<>>
    /\ results' = NoResults
    /\ raised' = NoExc
    /\ UNCHANGED <<caller, observer, gemini_model, confidence_threshold, status, status_files, cli>>

vars == <<pvars, vvars, bvars, rvars>>

InitVerify == VerifyIdle /\ BatchIdle /\ RemoteIdle /\ PipelineIdle

NextVerify ==
    \/ VerifyClaimCall /\ UNCHANGED <<bvars, rvars, pvars>>
    \/ ExtractClaimDataCall /\ UNCHANGED <<bvars, rvars, pvars>>

SpecVerify == InitVerify /\ [][NextVerify]_vars

\* no call of verify_claim and of extract_claim_data
VerifierIdle ==
    /\ v_pc = "idle" /\ v_gemini = FALSE /\ v_company = <<>> /\ v_reply = ThrowReply
    /\ v_exc = "none" /\ v_result = NoVerdict /\ v_requests = 0
    /\ e_pc = "idle" /\ e_gemini = FALSE /\ e_text = <<>> /\ e_reply = ExtractThrow
    /\ e_fact = NoFact

\* the calls of extract_company_name_from_filename
InitName ==
    /\ BatchIdle /\ RemoteIdle /\ PipelineIdle /\ VerifierIdle /\ SplitIdle /\ RequestIdle
    /\ n_pc = "call"
    /\ n_filename \in Filenames
    /\ n_result = <<>>

NextName ==
    /\ ExtractCompanyNameCall
    /\ UNCHANGED <<v_pc, v_gemini, v_company, v_reply, v_exc, v_result, v_requests,
                   e_pc, e_gemini, e_text, e_reply, e_fact, bvars, rvars, pvars>>

SpecName == InitName /\ [][NextName]_vars

\* the calls of split_into_sentences
InitSplit ==
    /\ BatchIdle /\ RemoteIdle /\ PipelineIdle /\ VerifierIdle /\ NameIdle /\ RequestIdle
    /\ s_pc = "call"
    /\ s_text \in Texts
    /\ s_fails \in BOOLEAN
    /\ s_out = <<>>

NextSplit ==
    /\ SplitIntoSentencesCall
    /\ UNCHANGED <<v_pc, v_gemini, v_company, v_reply, v_exc, v_result, v_requests,
                   e_pc, e_gemini, e_text, e_reply, e_fact, bvars, rvars, pvars>>

SpecSplit == InitSplit /\ [][NextSplit]_vars

\* the calls classify_sentence makes to _make_api_request(text, max_retries)
InitRequest ==
    /\ BatchIdle /\ RemoteIdle /\ PipelineIdle /\ VerifierIdle /\ NameIdle /\ SplitIdle
    /\ q_pc = "loop"
    /\ q_max_retries \in 0..MaxRetries
    /\ q_attempt = 0
    /\ q_answers = <<>>
    /\ q_waits = <<>>
    /\ q_result = EmptySlot

RequestOthersUnchanged ==
    UNCHANGED <<v_pc, v_gemini, v_company, v_reply, v_exc, v_result, v_requests,
                e_pc, e_gemini, e_text, e_reply, e_fact, bvars, rvars, pvars>>

NextRequest ==
    \/ SendRequest /\ RequestOthersUnchanged
    \/ RetriesExhausted /\ RequestOthersUnchanged
    \/ ClassifyAfterRequest /\ RequestOthersUnchanged

SpecRequest == InitRequest /\ [][NextRequest]_vars

InitBatch == BatchIdle /\ RemoteIdle /\ VerifyIdle /\ PipelineIdle

NextBatch ==
    \/ BatchClassifyCall /\ UNCHANGED <<vvars, pvars, rvars>>
    \/ ProcessSentencesCall /\ UNCHANGED <<vvars, pvars, rvars>>
    \/ ClassifySentenceCall /\ UNCHANGED <<vvars, pvars, rvars>>
    \/ FilterClaimsCall /\ UNCHANGED <<vvars, pvars, rvars>>
    \/ RemoteBatchClassifyCall /\ UNCHANGED <<vvars, pvars, bvars>>
    \/ WorkerStart /\ UNCHANGED <<vvars, pvars, bvars>>
    \/ WorkerFinish /\ UNCHANGED <<vvars, pvars, bvars>>
    \/ Collect /\ UNCHANGED <<vvars, pvars, bvars>>
    \/ RemoteReturn /\ UNCHANGED <<vvars, pvars, bvars>>
    \/ RemoteFilterClaimsCall /\ UNCHANGED <<vvars, pvars>>

SpecBatch == InitBatch /\ [][NextBatch]_vars

Init == InitPipeline /\ VerifyIdle /\ BatchIdle /\ RemoteIdle

Next ==
    \/ CliStart /\ UNCHANGED <<vvars, bvars, rvars>>
    \/ BeginProcessing /\ UNCHANGED <<vvars, bvars, rvars>>
    \/ InitializeComponents /\ UNCHANGED <<vvars, bvars, rvars>>
    \/ ExtractPdfText /\ UNCHANGED <<vvars, bvars, rvars>>
    \/ ClassifyClaims /\ UNCHANGED <<vvars, bvars, rvars>>
    \/ ProcessDetectedClaims /\ UNCHANGED <<vvars, bvars, rvars>>
    \/ VerifyClaims /\ UNCHANGED <<vvars, bvars, rvars>>
    \/ FormatResults /\ UNCHANGED <<vvars, bvars, rvars>>
    \/ CliFinish /\ UNCHANGED <<vvars, bvars, rvars>>

Spec == Init /\ [][Next]_vars

\* the requests served by api_server.py, one after another
InitServerSpec == InitServer /\ VerifyIdle /\ BatchIdle /\ RemoteIdle

NextServer ==
    \/ BeginProcessing /\ UNCHANGED <<vvars, bvars, rvars>>
    \/ InitializeComponents /\ UNCHANGED <<vvars, bvars, rvars>>
    \/ ExtractPdfText /\ UNCHANGED <<vvars, bvars, rvars>>
    \/ ClassifyClaims /\ UNCHANGED <<vvars, bvars, rvars>>
    \/ ProcessDetectedClaims /\ UNCHANGED <<vvars, bvars, rvars>>
    \/ VerifyClaims /\ UNCHANGED <<vvars, bvars, rvars>>
    \/ FormatResults /\ UNCHANGED <<vvars, bvars, rvars>>
    \/ ServerNextRequest /\ UNCHANGED <<vvars, bvars, rvars>>

SpecServer == InitServerSpec /\ [][NextServer]_vars

\* the runs of the command line entry point
InitCli == Init /\ caller = "cli"

SpecCli == InitCli /\ [][Next]_vars

\* C3: batch classification returns exactly one result per input sentence and
\* result i carries the text of sentences[i], for every batch size, with blank
\* sentences in the list and with a last chunk shorter than the batch size.
BatchOnePerSentenceInOrder ==
    b_pc = "returned" =>
        /\ Len(b_results) = Len(b_sentences)
        /\ \A i \in 1..Len(b_sentences) : b_results[i].text = b_sentences[i]

\* a two-chunk run whose last chunk is short and which holds a blank sentence
\* next to a classified one
BatchShortLastChunkWithBlank ==
    /\ b_pc = "returned"
    /\ b_impl = "BatchProcessor"
    /\ b_size = 2
    /\ Len(b_sentences) = 3
    /\ IsBlank(b_sentences[1])
    /\ b_results[2].is_claim
    /\ b_results[3].text = S_pad
    /\ b_bad = {}

\* C9: verify_claim returns a verdict and never raises, whatever the reasoning
\* service does (not configured, throwing, free text, fenced JSON, JSON that is
\* no object, fields missing or of the wrong type), for a string company name
\* and a loaded dataset.
VerifyClaimNeverRaises ==
    (v_pc # "idle" /\ v_company # NoneStr) =>
        /\ v_pc = "returned"
        /\ v_exc = "none"
        /\ v_result # NoVerdict

\* the service answered with JSON that is no object, for a company with
\* reference rows: the verdict is the one of the basic rule
VerifyClaimSurvivesNonObject ==
    /\ v_pc = "returned"
    /\ v_gemini
    /\ v_reply.kind = "json"
    /\ v_reply.top = "list"
    /\ v_company = <<"a", "b">>
    /\ v_result.status = "questionable"
    /\ v_result.reasoning = "detailed verification unavailable"

\* ------------------------------------------------------------ the pipeline
Completed == pc \in {"returned", "exit_ok"}
Failed == pc \in {"raised", "exit_error"}

\* the claims that passed the confidence filter of step 4
Filtered == filter_claims(classification_results, self_confidence_threshold)

Occurrences(list, i) ==
    Cardinality({j \in DOMAIN list : list[j].id = i /\ list[j].text = Filtered[i].text})

\* C1: in every completed run each classification result that passed the
\* confidence filter of step 4 appears exactly once in the returned claim list,
\* whatever failed for single claims during fact extraction or verification.
EveryFilteredClaimReportedOnce ==
    Completed =>
        /\ Len(results.claims) = Len(Filtered)
        /\ \A i \in DOMAIN Filtered : Occurrences(results.claims, i) = 1

\* the cause of the failure, the last part of the message of the raised error
Cause == raised.msg[Len(raised.msg)]

\* C2: when the inference call of one chunk raises during the classification
\* pass of the pipeline, the pass is not aborted and neither is the run: every
\* sentence still gets a result.
ChunkFailureDoesNotAbortRun ==
    ~(Failed /\ status.current_step = StepName(3) /\ Cause = "RuntimeError")

\* the snapshots that open a step: step_progress is 0 only there
StepStarts(k) ==
    {i \in DOMAIN snapshots : snapshots[i].current_step = StepName(k)
                              /\ snapshots[i].step_progress = Zero}

FirstOf(k) == SetMin({i \in DOMAIN snapshots : snapshots[i].current_step = StepName(k)})

\* C4: in a run where no step fails the observer sees the six steps start in
\* the order 1..6, each once, the snapshot that opens step k has progress
\* (k-1)/6 and step_progress 0, progress never decreases from one snapshot to
\* the next, and the last snapshot is 'Complete' with progress 1.0.
ProgressSnapshotsInOrder ==
    (Completed /\ observer # "none") =>
        /\ \A k \in 1..TotalSteps :
              /\ Cardinality(StepStarts(k)) = 1
              /\ StepStarts(k) = {FirstOf(k)}
              /\ snapshots[FirstOf(k)].progress = <<k - 1, 6>>
        /\ \A k \in 1..(TotalSteps - 1) : FirstOf(k) < FirstOf(k + 1)
        /\ \A k \in 1..(TotalSteps - 1) :
              \A i \in DOMAIN snapshots :
                  snapshots[i].current_step = StepName(k) => i < FirstOf(k + 1)
        /\ \A i \in 1..(Len(snapshots) - 1) :
              FracLeq(snapshots[i].progress, snapshots[i + 1].progress)
        /\ snapshots[Len(snapshots)].current_step = "Complete"
        /\ snapshots[Len(snapshots)].progress = One
        /\ \A i \in 1..(Len(snapshots) - 1) : snapshots[i].current_step # "Complete"

\* a completed run over two chunks and two claims, reported claim by claim
TwoChunksTwoClaimsObserved ==
    /\ pc = "returned"
    /\ observer = "raising"
    /\ Len(sentences) > BATCH_SIZE
    /\ Len(results.claims) = 2
    /\ Len(snapshots) = 11

\* the stage an aborted run failed in, read from the message of the error
FailedStage == IF Len(raised.msg) >= 2 THEN raised.msg[2] ELSE "none"

\* C5: the error process_pdf_document raises is of the failing stage's kind:
\* PDFExtractionError when extraction fails, a model error when classification
\* fails, a verification error when verification fails.
RaisedErrorHasStageKind ==
    pc = "raised" =>
        /\ FailedStage = "PDF text extraction failed" => raised.type = "PDFExtractionError"
        /\ FailedStage = "Claim classification failed" => raised.type = "ModelLoadError"
        /\ FailedStage = "Claim verification failed" => raised.type = "VerificationError"

\* a step failed (the observer raising on the final 'Complete' report is no step)
StepFailed == Failed /\ status.current_step # "Complete"

\* C6: when a step fails terminally no result dictionary is returned, no
\* snapshot 'Complete' or with progress 1.0 was emitted, the status tracker holds
\* an error message, and nothing of the pipeline runs afterwards.
StepFailureAbortsRun ==
    /\ [](StepFailed =>
            /\ results = NoResults
            /\ raised.type = "ESGProcessingError"
            /\ Len(status.errors) >= 1
            /\ status.errors[Len(status.errors)] = raised.msg
            /\ \A i \in DOMAIN snapshots :
                  /\ snapshots[i].current_step # "Complete"
                  /\ ~FracEq(snapshots[i].progress, One))
    /\ [][StepFailed => (StepFailed' /\ UNCHANGED <<status, snapshots, datavars, results, raised>>)]_vars

\* the run of a missing file, aborted in step 2
AbortedInExtraction ==
    /\ pc = "raised"
    /\ pdf.kind = "missing"
    /\ status.current_step = StepName(2)
    /\ Len(status.errors) = 1
    /\ Len(snapshots) = 2

\* C7: when extraction produces nothing (no text, or no sentence) the run is
\* aborted with an extraction error and returns nothing; no run completes with
\* zero extracted sentences.
NothingExtractedAbortsRun ==
    /\ Completed => Len(sentences) > 0
    /\ (pdf.sentences = <<>> /\ pc \notin {"cli_main", "call", "step1", "step2"}) =>
          (Failed /\ results = NoResults)

LastStatusFile == status_files[Len(status_files)]

OnlyThreeStatusesReachSynthesizer ==
    /\ \A i \in DOMAIN verified_claims : verified_claims[i].verification_status \in VerdictStatuses
    /\ \A i \in DOMAIN results.claims : results.claims[i].status \in VerdictStatuses

\* ------------------------------------------------- the results synthesizer
SummaryOf(summary, claim_list) ==
    /\ summary.total_claims = Len(claim_list)
    /\ summary.verified + summary.questionable + summary.unverified = summary.total_claims
    /\ summary.verification_rate[2] # 0
    /\ IF summary.total_claims = 0
       THEN FracEq(summary.verification_rate, Zero)
       ELSE FracEq(summary.verification_rate, <<summary.verified, summary.total_claims>>)

\* C11: for every claim list given to the results synthesizer the summary it
\* returns has verified + questionable + unverified = total_claims = length of
\* the claim list and verification_rate = verified / total_claims, which is 0
\* and no division error for the empty list.
SummaryCountsAddUp ==
    /\ pc = "step6" =>
          LET out == format_processing_results(sentences, verified_claims, status)
          IN  out.exc = "none" =>
                 /\ SummaryOf(out.val.summary, verified_claims)
                 /\ Len(out.val.claims) = Len(verified_claims)
    /\ Completed => SummaryOf(results.summary, results.claims)

\* a completed run that reports one verified claim among two
SummaryOfMixedVerdicts ==
    /\ pc = "returned"
    /\ results.summary.total_claims = 2
    /\ results.summary.verified = 1
    /\ results.summary.verification_rate = <<1, 2>>

\* ------------------------------------------------------------ the verifier
\* the lookup of the call found no reference record
NoReferenceRecords ==
    /\ v_pc # "idle"
    /\ v_company # NoneStr
    /\ _get_company_data_for_verification(Dataset, v_company).val = <<>>

\* C12: when the company lookup finds no reference record, verify_claim
\* returns 'unverified' with confidence 0.0, csv_match false and
\* tolerance_check false and sends no request to the reasoning service,
\* whether the service is configured or not.
NoRecordsShortCircuit ==
    NoReferenceRecords =>
        /\ v_pc = "returned"
        /\ v_result.status = "unverified"
        /\ v_result.confidence = 0
        /\ ~v_result.csv_match
        /\ ~v_result.tolerance_check
        /\ v_requests = 0

\* a configured service that would have answered 'verified' is not asked
\* about a company without records
UnknownCompanyNotAsked ==
    /\ NoReferenceRecords
    /\ v_gemini
    /\ v_reply.kind = "json"
    /\ v_reply.status = "verified"
    /\ v_company = <<"b", "b", "b", "b">>
    /\ v_requests = 0

\* the rows whose company equals the candidate, ignoring case
EqualIgnoringCase(name) ==
    {i \in DOMAIN Dataset : LowerStr(Dataset[i].company) = LowerStr(name)}

\* the rows whose company contains or is contained in the candidate, ignoring case
ContainmentIgnoringCase(name) ==
    {i \in DOMAIN Dataset : \/ StrIn(LowerStr(name), LowerStr(Dataset[i].company))
                            \/ StrIn(LowerStr(Dataset[i].company), LowerStr(name))}

\* the record group of row i: the rows of its company
RecordGroup(i) == {j \in DOMAIN Dataset : Dataset[j].company = Dataset[i].company}

\* C13: the company lookup returns the rows of the companies equal to the
\* candidate ignoring case when there is one, and then never a containment
\* match; otherwise, for a candidate of more than 3 characters, the record
\* group of the first row in dataset order whose company contains or is
\* contained in the candidate ignoring case; otherwise no row.
LookupExactThenFirstContainment ==
    (v_pc # "idle" /\ v_company # NoneStr) =>
        LET found == _get_company_data_for_verification(Dataset, v_company)
            rows == found.val
        IN  /\ found.exc = "none"
            /\ \A i \in 1..(Len(rows) - 1) : rows[i] < rows[i + 1]
            /\ Range(rows) =
                  IF EqualIgnoringCase(v_company) # {}
                  THEN EqualIgnoringCase(v_company)
                  ELSE IF Len(v_company) > 3 /\ ContainmentIgnoringCase(v_company) # {}
                  THEN RecordGroup(SetMin(ContainmentIgnoringCase(v_company)))
                  ELSE {}

\* 'baba' contains 'ab' (row 2) and 'ba' (row 5): the lookup gives the group
\* of row 2 only, which does not hold the company 'Ab' of row 6
FirstContainmentGroupOnly ==
    /\ v_pc = "returned"
    /\ v_company = <<"b", "a", "b", "a">>
    /\ ContainmentIgnoringCase(v_company) = {2, 5, 6}
    /\ _get_company_data_for_verification(Dataset, v_company).val = <<2>>
    /\ v_result.csv_match

\* ---------------------------------------------------------- the classifiers
\* the list filter_claims was called on, and the filter of its classifier
Classified == IF r_pc = "returned" THEN r_results ELSE b_results

FilterOf(list, t) ==
    IF r_pc = "returned" THEN HuggingFace_filter_claims(list, t)
    ELSE filter_claims(list, t)

\* the threshold that applies: min_confidence, or the classifier's own 0.7
AppliedThreshold == IF f_threshold = NoThreshold THEN 7 ELSE f_threshold

\* the positions of the results with is_claim true and confidence >= t
Qualifying(t) ==
    {i \in DOMAIN Classified : Classified[i].is_claim /\ Classified[i].confidence >= t}

\* the k-th qualifying position
NthQualifying(t, k) ==
    CHOOSE i \in Qualifying(t) : Cardinality({j \in Qualifying(t) : j <= i}) = k

\* a is b with some entries left out
IsSubList(a, b) ==
    \E at \in [DOMAIN a -> DOMAIN b] :
        /\ \A k \in DOMAIN a : a[k] = b[at[k]]
        /\ \A k \in 1..(Len(a) - 1) : at[k] < at[k + 1]

\* C14: filter_claims(results, t) returns exactly the entries with is_claim
\* true and confidence >= t, unchanged and in their original order, and for a
\* threshold t2 >= t its output is a sub-list of the output for t, so the size
\* never grows with the threshold; for the local and for the remote classifier.
FilterKeepsExactlyQualifying ==
    f_pc = "filtered" =>
        /\ Len(f_claims) = Cardinality(Qualifying(AppliedThreshold))
        /\ \A k \in DOMAIN f_claims : f_claims[k] = Classified[NthQualifying(AppliedThreshold, k)]
        /\ \A t2 \in Thresholds :
              t2 >= AppliedThreshold =>
                 /\ IsSubList(FilterOf(Classified, t2), f_claims)
                 /\ Len(FilterOf(Classified, t2)) <= Len(f_claims)

\* a result exactly at the threshold is kept, a Non-Claim and a weaker claim
\* before it are dropped
FilterAtThresholdKeepsEqual ==
    /\ f_pc = "filtered"
    /\ b_impl = "ClaimClassifier"
    /\ f_threshold = 9
    /\ b_sentences = <<S_thr, S_non, S_hi>>
    /\ Len(f_claims) = 1
    /\ f_claims[1] = b_results[3]
    /\ f_claims[1].confidence = 9

\* confidence in [0,1], raw scores summing to 1.0, confidence the raw score of
\* the predicted class (raw_scores = [Non-Claim, Claim])
IsDistribution(result) ==
    /\ result.confidence \in 0..10
    /\ result.raw_scores[1] + result.raw_scores[2] = 10
    /\ result.confidence = result.raw_scores[IF result.prediction = "Claim" THEN 2 ELSE 1]

\* C15: every ClassificationResult of the single-sentence and of the batch
\* path, the default results for empty input, failed chunks or requests and
\* unexpected remote responses included, has confidence in [0,1], two raw
\* scores that sum to 1.0 and confidence equal to the raw score of the
\* predicted class.
EveryResultIsDistribution ==
    /\ b_pc = "returned" => \A i \in DOMAIN b_results : IsDistribution(b_results[i])
    /\ r_pc = "returned" => \A i \in DOMAIN r_results : IsDistribution(r_results[i])

\* the deterministic answer for a blank sentence
IsBlankAnswer(result) ==
    /\ result.prediction = "Non-Claim"
    /\ result.confidence = 0
    /\ ~result.is_claim

\* the sentences handed to the local model in the calls made
SentencesInCalls == UNION {Range(b_calls[c]) : c \in DOMAIN b_calls}

\* C16: an empty or whitespace-only sentence is classified Non-Claim with
\* confidence 0.0 and is_claim false and is never given to the model or sent to
\* the remote endpoint, in the single-sentence path and in the batch paths; a
\* chunk made of blank sentences only makes no inference call.
BlankSentenceNeverReachesModel ==
    /\ b_pc = "returned" =>
          \A i \in DOMAIN b_sentences : IsBlank(b_sentences[i]) => IsBlankAnswer(b_results[i])
    /\ b_pc # "idle" =>
          /\ <<>> \notin SentencesInCalls
          /\ \A c \in DOMAIN b_calls : b_calls[c] # <<>>
          /\ (\A i \in DOMAIN b_sentences : IsBlank(b_sentences[i])) => b_calls = <<>>
    /\ r_pc # "idle" =>
          /\ \A idx \in r_requests : ~IsBlank(r_sentences[idx])
          /\ \A idx \in DOMAIN r_sentences :
                (IsBlank(r_sentences[idx]) /\ r_task[idx] \in {"done", "collected"}) =>
                    IsBlankAnswer(r_future[idx])
    /\ r_pc = "returned" =>
          \A idx \in DOMAIN r_sentences : IsBlank(r_sentences[idx]) => IsBlankAnswer(r_results[idx])

\* a first chunk of two blank sentences makes no call, the second chunk makes one
BlankChunkMakesNoCall ==
    /\ b_pc = "returned"
    /\ b_impl = "BatchProcessor"
    /\ b_size = 2
    /\ b_sentences = <<S_ws, S_empty, S_pad>>
    /\ b_calls = <<<<S_hi>>>>
    /\ IsBlankAnswer(b_results[1])
    /\ b_results[3].is_claim

\* the entry the concurrent batch owes for sentences[idx], given the answer the
\* endpoint gave to its request and the behaviour of the progress callback
RemoteEntryFor(idx) ==
    IF r_callback = "raises"
    THEN DefaultResult(r_sentences[idx], "Exception")
    ELSE HuggingFace_classify_sentence(r_sentences[idx],
             IF r_response[idx] = "none" THEN "labels" ELSE r_response[idx]).val

\* C17: in the concurrent batch of the remote classifier, whatever the order in
\* which the requests complete and whichever requests fail, the returned list
\* has one entry per input sentence, entry i is the result for sentences[i] and
\* carries its text, no entry is unfilled, a failed request fills only its own
\* entry with the default (Non-Claim, confidence 0.0, error annotation) and the
\* other requests still complete; at most max_workers requests run at once.
ConcurrentResultsAlignedWithInput ==
    /\ r_pc # "idle" =>
          /\ Len(r_results) = Len(r_sentences)
          /\ Cardinality(Running) <= r_max_workers
          /\ \A idx \in DOMAIN r_sentences :
                IF r_task[idx] = "collected"
                THEN r_results[idx] = RemoteEntryFor(idx)
                ELSE r_results[idx] = EmptySlot
    /\ r_pc = "returned" =>
          /\ Len(r_order) = Len(r_sentences)
          /\ Range(r_order) = DOMAIN r_sentences
          /\ \A idx \in DOMAIN r_sentences :
                /\ r_results[idx] # EmptySlot
                /\ r_results[idx].text = r_sentences[idx]
                /\ r_response[idx] = "failed" =>
                      /\ r_results[idx].prediction = "Non-Claim"
                      /\ r_results[idx].confidence = 0
                      /\ ~r_results[idx].is_claim
                      /\ r_results[idx].error # MISSING
                /\ (r_response[idx] = "labels" /\ r_callback = "returns") =>
                      r_results[idx] = _parse_api_response("labels", Strip(r_sentences[idx]),
                                                           r_sentences[idx])

\* three requests on five workers: the second fails and completes first, the
\* first completes last, and both siblings are classified as claims
FailedRequestCompletesFirst ==
    /\ r_pc = "returned"
    /\ r_max_workers = DefaultMaxWorkers
    /\ r_callback = "returns"
    /\ r_sentences = <<S_pad, S_pad, S_pad>>
    /\ r_response = <<"labels", "failed", "labels">>
    /\ r_order = <<2, 3, 1>>
    /\ r_results[1].is_claim
    /\ r_results[2].error = "ESGProcessingError"
    /\ r_results[3].is_claim

\* C18: no status tracker is shared between pipeline runs: what a run shows
\* of its status holds only the errors and warnings that run produced, so a
\* run that has just started, and the first snapshot it hands to its
\* observer, show no error and no warning, also for the documents the HTTP
\* server processes one after another.
RunStatusHoldsOnlyOwnEntries ==
    /\ pc = "step1" => (status.errors = <<>> /\ status.warnings = <<>>)
    /\ snapshots # <<>> =>
          (snapshots[1].errors = <<>> /\ snapshots[1].warnings = <<>>)

\* C19: in the final claim list of every completed run the ids are 1, 2, ..., N
\* in list order, N being the number of reported claims: no gap and no repeat,
\* whatever failed for single claims.
ReportedIdsAreOneToN ==
    Completed => \A k \in DOMAIN results.claims : results.claims[k].id = k

\* the warning recorded when fact extraction raises for filtered claim i
ExtractionWarning(i) == <<"Failed to extract data from claim", i>>

WarningsFor(st, i) ==
    Cardinality({w \in DOMAIN st.warnings : st.warnings[w] = ExtractionWarning(i)})

\* the filtered claims whose fact extraction raised in this run
Skipped == {i \in DOMAIN Filtered : WarningsFor(status, i) > 0}

IdsOf(list) == {list[k].id : k \in DOMAIN list}

\* C20: when fact extraction raises for a filtered claim in step 4 the run is
\* not aborted: one warning naming that claim is recorded, the claim is left
\* out of the processed set, and every other filtered claim is processed,
\* verified and reported.
ExtractionFailureSkipsOnlyThatClaim ==
    /\ ~(Failed /\ status.current_step = StepName(4) /\ Cause # "progress callback failed")
    /\ (pc = "step4" /\ Filtered # <<>>) =>
          \A throws \in SUBSET DOMAIN Filtered :
          \A reply_of \in [DOMAIN Filtered -> IF gemini_model THEN PipelineExtractReplies
                                              ELSE {ExtractThrow}] :
             LET out == ProcessLoop(Filtered, 1, throws, reply_of,
                                    [status |-> status, claims |-> <<>>])
             IN  /\ \A i \in DOMAIN Filtered :
                       WarningsFor(out.status, i) = IF i \in throws THEN 1 ELSE 0
                 /\ Len(out.status.warnings) = Len(status.warnings) + Cardinality(throws)
                 /\ out.status.errors = status.errors
                 /\ IdsOf(out.claims) = DOMAIN Filtered \ throws
                 /\ Len(out.claims) = Cardinality(DOMAIN Filtered \ throws)
                 /\ \A k \in DOMAIN out.claims :
                       out.claims[k].text = Filtered[out.claims[k].id].text
    /\ (pc \in {"step5", "step6"} \/ Completed) =>
          /\ \A i \in DOMAIN Filtered : WarningsFor(status, i) <= 1
          /\ pc = "step5" => IdsOf(claims) = DOMAIN Filtered \ Skipped
          /\ pc = "step6" => IdsOf(verified_claims) = DOMAIN Filtered \ Skipped
          /\ Completed =>
                /\ IdsOf(results.claims) = DOMAIN Filtered \ Skipped
                /\ \A k \in DOMAIN results.claims :
                      /\ results.claims[k].text = Filtered[results.claims[k].id].text
                      /\ results.claims[k].status # NONE

\* of two retained claims the first is skipped with one warning and the
\* second is verified and reported in a completed run
SecondClaimReportedAfterFirstSkipped ==
    /\ Completed
    /\ Len(Filtered) = 2
    /\ status.warnings = <<ExtractionWarning(1)>>
    /\ Len(results.claims) = 1
    /\ results.claims[1].text = Filtered[2].text
    /\ results.claims[1].status = "verified"

\* whether self.esg_verifier.verify_claim raises for the claims of this run
VerificationThrows ==
    \E reply \in PipelineReplies :
        verify_claim(gemini_model, Dataset, company_name, reply).exc # "none"

VerifyWarning(id) == <<"Failed to verify claim", id>>

\* the entry of a claim whose verification raised
IsDegraded(entry, claim) ==
    /\ entry.id = claim.id
    /\ entry.text = claim.text
    /\ entry.confidence = claim.confidence
    /\ entry.extracted_data = claim.extracted_data
    /\ entry.verification_status = "unverified"
    /\ entry.verification_confidence = 0
    /\ entry.match_details.csv_match = FALSE
    /\ entry.match_details.tolerance_check = FALSE
    /\ entry.match_details.reasoning = "Verification failed"

\* C21: when the verification of a claim raises in step 5 the claim stays in
\* the output at its position as 'unverified' with confidence 0.0, csv_match
\* and tolerance_check false and a reasoning naming the failure, one warning is
\* recorded for it, the other claims keep the verdict of the verifier, and the
\* output of step 5 has the length and the order of its input.
FailedVerificationDegradesClaim ==
    /\ (pc = "step5" /\ claims # <<>>) =>
          \A reply_of \in [DOMAIN claims -> IF gemini_model THEN PipelineReplies ELSE {ThrowReply}] :
             LET out == VerifyLoop(claims, 1, reply_of, {},
                                   [status |-> status, snapshots |-> <<>>, verified |-> <<>>])
             IN  /\ Len(out.verified) = Len(claims)
                 /\ \A k \in DOMAIN claims :
                       LET verdict == verify_claim(gemini_model, Dataset, company_name, reply_of[k])
                       IN  IF verdict.exc # "none"
                           THEN IsDegraded(out.verified[k], claims[k])
                           ELSE out.verified[k] = VerifiedClaim(claims[k], verdict.val)
                 /\ Len(out.status.warnings) = Len(status.warnings)
                       + Cardinality({k \in DOMAIN claims :
                            verify_claim(gemini_model, Dataset, company_name, reply_of[k]).exc # "none"})
    /\ (pc = "step6" /\ VerificationThrows) =>
          /\ Len(verified_claims) = Len(claims)
          /\ \A k \in DOMAIN claims :
                /\ IsDegraded(verified_claims[k], claims[k])
                /\ Cardinality({w \in DOMAIN status.warnings :
                                   status.warnings[w] = VerifyWarning(claims[k].id)}) = 1

\* a run without company name: the verification of both claims raised and
\* both are reported as unverified
BothClaimsDegraded ==
    /\ Completed
    /\ VerificationThrows
    /\ Len(claims) = 2
    /\ Len(results.claims) = 2
    /\ results.claims[1].status = "unverified"
    /\ results.claims[2].reasoning = "Verification failed"
    /\ status.warnings = <<VerifyWarning(1), VerifyWarning(2)>>

\* the answers of the reasoning service that give no JSON object
NoObjectReply(reply) == reply.kind # "json" \/ reply.top # "object"

\* C22: extract_claim_data never raises and always returns a fact: when the
\* reasoning service is not configured, throws, answers with text that is not
\* JSON or with JSON that is no object, the fact is the result of the pattern
\* extraction on the claim text; the raw text of the fact is the claim text in
\* every case.
ExtractionFallsBackToPatterns ==
    e_pc # "idle" =>
        /\ e_pc = "returned"
        /\ e_fact # NoFact
        /\ e_fact.raw_text = e_text
        /\ (~e_gemini \/ NoObjectReply(e_reply)) => e_fact = _basic_extract_claim_data(e_text)

\* the configured service answers with a JSON list: the fact comes from the patterns
ListReplyGivesPatternFact ==
    /\ e_pc = "returned"
    /\ e_gemini
    /\ e_reply.kind = "json"
    /\ e_reply.top = "list"
    /\ e_text = S_hi
    /\ e_fact.metric = "emissions"
    /\ e_fact.year = JNum(2023)
    /\ e_fact.percentage = JNum(250)

\* C27: every fact extract_claim_data produces, from the answer of the
\* reasoning service as well as from the patterns, has a year that is unset or
\* an integer between 2020 and 2025.
ExtractedYearInRange ==
    e_pc = "returned" =>
        \/ e_fact.year = JNull
        \/ \E y \in 2020..2025 : e_fact.year = JNum(y)

\* whether the dataset has reference records for the company of the call
HasReferenceRecords ==
    /\ v_company # NoneStr
    /\ _get_company_data_for_verification(Dataset, v_company).val # <<>>

\* C23: with the reasoning service not configured, a claim for a company with
\* reference records gets the verdict 'questionable' with confidence 0.5,
\* csv_match true and tolerance_check false, and no claim is ever 'verified'.
UnconfiguredServiceNeverVerifies ==
    (v_pc = "returned" /\ ~v_gemini) =>
        /\ v_result.status # "verified"
        /\ v_requests = 0
        /\ HasReferenceRecords =>
              /\ v_result.status = "questionable"
              /\ v_result.confidence = 5
              /\ v_result.csv_match
              /\ ~v_result.tolerance_check

\* a company written in another case than its reference records, service not
\* configured: the verdict is 'questionable'
UnconfiguredQuestionable ==
    /\ v_pc = "returned"
    /\ ~v_gemini
    /\ HasReferenceRecords
    /\ v_company \notin {Dataset[i].company : i \in DOMAIN Dataset}
    /\ v_result.status = "questionable"
    /\ v_result.confidence = 5
    /\ v_result.csv_match

\* the report words of a file name, whatever their case
ReportWords == {"sustainability", "annual", "report", "csr", "esg"}
IsReportWord(word) == Len(word) = 1 /\ word[1][1] \in ReportWords
OnlyDigits(word) == \A i \in DOMAIN word : word[i][1] \in DigitTokens

\* the tokens of the stem that are neither a report word nor only digits
RemainingTokens(filename) ==
    SelectSeq(SplitWords(filename, <<>>, <<>>),
              LAMBDA w : ~IsReportWord(w) /\ ~OnlyDigits(w))

\* a name is a non-empty string: at least one word, no empty word
NonEmptyName(name) == name # <<>> /\ \A i \in DOMAIN name : name[i] # <<>>

\* C24: extract_company_name_from_filename returns a non-empty string for
\* every file name; when the stem has a token that is neither a report word
\* (ignoring case) nor made of digits only, the result is these remaining
\* tokens in their order, each capitalised, joined by single spaces.
CompanyNameIsRemainingTokens ==
    n_pc = "returned" =>
        /\ NonEmptyName(n_result)
        /\ LET remaining == RemainingTokens(n_filename)
           IN  remaining # <<>> =>
                  /\ Len(n_result) = Len(remaining)
                  /\ \A i \in DOMAIN remaining :
                        /\ Len(n_result[i]) = Len(remaining[i])
                        /\ \A j \in DOMAIN remaining[i] :
                              /\ n_result[i][j][1] = remaining[i][j][1]
                              /\ n_result[i][j][2] =
                                    IF j = 1 /\ remaining[i][1][1] \notin DigitTokens
                                    THEN "capital" ELSE "lower"

\* Apple_Sustainability_Report_2023.pdf gives 'Apple'
AppleReportGivesApple ==
    /\ n_pc = "returned"
    /\ n_filename = <<[sep |-> "", token |-> <<"apple", "capital">>],
                      [sep |-> "_", token |-> <<"sustainability", "capital">>],
                      [sep |-> "_", token |-> <<"report", "capital">>],
                      [sep |-> "_", token |-> <<"2023", "lower">>]>>
    /\ n_result = <<<<<<"apple", "capital">>>>>>

\* C25: process_pdf_document raises and returns no results when it is called
\* with an empty company name, and when the document path does not exist.
BadArgumentsAreRejected ==
    (pc \in {"returned", "raised"} /\ (company_name = <<>> \/ pdf.kind = "missing")) =>
        /\ pc = "raised"
        /\ results = NoResults

\* the length a sentence of the text has for the segmenter that was used
SegmentLen(sentence) == IF s_fails THEN RegexLen(sentence) ELSE TokenizedLen(sentence)

\* C28: sentence segmentation keeps a sentence exactly when it has at least
\* 10 characters and at least 4 words, with the primary segmenter and with the
\* regex fallback: the output is the list of these sentences in text order.
KeepsTenCharactersFourWords ==
    s_pc = "returned" =>
        LET expected == SelectSeq(s_text, LAMBDA x : SegmentLen(x) >= 10 /\ x.words >= 4)
        IN  /\ Len(s_out) = Len(expected)
            /\ \A i \in DOMAIN expected :
                  /\ s_out[i].chars = SegmentLen(expected[i])
                  /\ s_out[i].words = expected[i].words

\* the wait the claim puts after attempt k (counted from 1) with its answer
ClaimedWait(k, answer, n) ==
    CASE answer = "busy" -> Min(20 * k, 60)
      [] answer \in {"timeout", "error"} /\ k < n -> 5
      [] OTHER -> 0

SuppliedThreshold ==
    IF confidence_threshold = NoThreshold THEN CONFIDENCE_THRESHOLD ELSE confidence_threshold

ExtractionWarnings ==
    Cardinality({w \in DOMAIN status.warnings :
                    status.warnings[w][1] = "Failed to extract data from claim"})

\* C29: the threshold given to the constructor is the one of the step-4
\* filter: for every supplied threshold t, 0.0 included, exactly the results
\* with is_claim and confidence >= t are retained (each is processed or
\* skipped with an extraction warning); 0.7 is used only when none is given.
SuppliedThresholdFiltersStep4 ==
    pc = "step5" =>
        LET kept == filter_claims(classification_results, SuppliedThreshold)
        IN  /\ Len(claims) + ExtractionWarnings = Len(kept)
            /\ \A k \in DOMAIN claims : claims[k].confidence >= SuppliedThreshold
            /\ \A k \in DOMAIN claims : \E i \in DOMAIN kept : kept[i].text = claims[k].text

\* C30: an exception of the progress observer while it is told of a claim's
\* verification progress in step 5 adds, removes and duplicates no claim: after
\* step 5 the output has one entry per input claim, in order, with unique ids.
ObserverFailureKeepsStep5Output ==
    pc = "step6" =>
        /\ Len(verified_claims) = Len(claims)
        /\ \A k \in DOMAIN verified_claims :
              k \in DOMAIN claims => verified_claims[k].id = claims[k].id
        /\ \A j, k \in DOMAIN verified_claims :
              verified_claims[j].id = verified_claims[k].id => j = k

====
